---- MODULE Spec2Model ----
(***************************************************************************)
(* Model of the CV parsing pipeline: the ProfileOnlyParser object          *)
(* (profile-only-parser.js), the DOCX / PDF text extractors and the        *)
(* parse-cv serve handler.                                                 *)
(*                                                                         *)
(* Strings are sequences of characters; a character is a one-character     *)
(* TLA+ string.  Characters outside ASCII are written by name:             *)
(*   "EN" U+2013 en dash, "BULLET" U+2022, "SQUARE" U+25AA,                *)
(*   "TRI" U+25B8, "PTR" U+25BA, "NBSP" U+00A0, "BIN" a byte outside       *)
(*   \x20-\x7E other than \n \r, "GRAVE" the grave accent \x60.            *)
(***************************************************************************)
EXTENDS Integers, Sequences, FiniteSets, TLC

VARIABLES
    call,     \* the function under evaluation
    arg,      \* its argument; of the serve handler, the request
    ret,      \* its completion: the returned value or the thrown exception
    pc,       \* "ready" before the call, "done" after it; in between, the
              \* await at which the serve handler stands
    locals,   \* the local bindings of the serve handler
    effects   \* the operations the serve handler has started, in order

vars == <<call, arg, ret, pc, locals, effects>>

\* ------------------------------------------------------------------------
\* Bounds of the input spaces.
\* ------------------------------------------------------------------------
MaxPhoneFrags == 3
MaxLocFrags == 3
MaxDateFrags == 3
MaxBulletFrags == 3

\* ------------------------------------------------------------------------
\* Characters and strings.
\* ------------------------------------------------------------------------
Digits == {"0", "1", "2", "3", "4", "5", "6", "7", "8", "9"}

UpperSeq == <<"A","B","C","D","E","F","G","H","I","J","K","L","M",
              "N","O","P","Q","R","S","T","U","V","W","X","Y","Z">>

LowerSeq == <<"a","b","c","d","e","f","g","h","i","j","k","l","m",
              "n","o","p","q","r","s","t","u","v","w","x","y","z">>

UpperChars == {UpperSeq[i] : i \in 1..26}

LowerChars == {LowerSeq[i] : i \in 1..26}

\* String.prototype.toLowerCase on one character
ToLower(c) ==
    IF c \in UpperChars
    THEN LowerSeq[CHOOSE i \in 1..26 : UpperSeq[i] = c]
    ELSE c

\* String.prototype.toUpperCase on one character
ToUpper(c) ==
    IF c \in LowerChars
    THEN UpperSeq[CHOOSE i \in 1..26 : LowerSeq[i] = c]
    ELSE c

\* the regex class \s (and what trim() removes)
IsSpace(c) == c \in {" ", "\t", "\n", "\r", "NBSP"}

\* the regex class \w
IsWordChar(c) == c \in Digits \cup UpperChars \cup LowerChars \cup {"_"}

\* s.slice(i - 1): the suffix of s that starts at (1-based) position i
From(s, i) == SubSeq(s, i, Len(s))

\* whether string w occurs in s at position i
StartsAt(s, i, w) ==
    /\ i >= 1
    /\ i + Len(w) - 1 <= Len(s)
    /\ SubSeq(s, i, i + Len(w) - 1) = w

\* the same, ignoring case (regex flag i); w is given in lower case
StartsAtCI(s, i, w) ==
    /\ i >= 1
    /\ i + Len(w) - 1 <= Len(s)
    /\ \A k \in 1..Len(w) : ToLower(s[i + k - 1]) = w[k]

\* String.prototype.includes
Contains(s, w) == \E i \in 1..(Len(s) - Len(w) + 1) : StartsAt(s, i, w)

ContainsCI(s, w) == \E i \in 1..(Len(s) - Len(w) + 1) : StartsAtCI(s, i, w)

\* the position after the run of \s* that starts at i
RECURSIVE SkipSpace(_, _)
SkipSpace(s, i) ==
    IF i <= Len(s) /\ IsSpace(s[i]) THEN SkipSpace(s, i + 1) ELSE i

\* the least element of a non-empty set of positions
Least(ps) == CHOOSE k \in ps : \A j \in ps : k <= j

\* the first position >= i that holds character c, 0 when there is none
IndexOfChar(s, i, c) ==
    LET at == {k \in i..Len(s) : s[k] = c}
    IN IF at = {} THEN 0 ELSE Least(at)

\* the first position >= i at which w occurs, 0 when there is none
IndexOf(s, i, w) ==
    LET at == {k \in i..Len(s) : StartsAt(s, k, w)}
    IN IF at = {} THEN 0 ELSE Least(at)

\* the first position >= i that holds white space, 0 when there is none
IndexOfSpace(s, i) ==
    LET at == {k \in i..Len(s) : IsSpace(s[k])}
    IN IF at = {} THEN 0 ELSE Least(at)

RECURSIVE TrimStart(_)
TrimStart(s) ==
    IF s # <<>> /\ IsSpace(s[1]) THEN TrimStart(Tail(s)) ELSE s

RECURSIVE TrimEnd(_)
TrimEnd(s) ==
    IF s # <<>> /\ IsSpace(s[Len(s)])
    THEN TrimEnd(SubSeq(s, 1, Len(s) - 1))
    ELSE s

\* String.prototype.trim
Trim(s) == TrimEnd(TrimStart(s))

\* the concatenation of a sequence of strings
RECURSIVE Flatten(_)
Flatten(ss) == IF ss = <<>> THEN <<>> ELSE Head(ss) \o Flatten(Tail(ss))

\* the strings made of at most n fragments of frags
FragStrings(frags, n) ==
    {Flatten(f) : f \in UNION {[1..k -> frags] : k \in 0..n}}

\* ------------------------------------------------------------------------
\* formatPhone
\* ------------------------------------------------------------------------
\* phone.replace(/[^\d+]/g, '')
PhoneCleaned(phone) == SelectSeq(phone, LAMBDA c : c \in Digits \cup {"+"})

\* cleaned.match(/^\+(\d{1,3})(\d+)$/): the length of group 1, or 0 when
\* there is no match.  \d{1,3} is greedy: it keeps as many digits as leave
\* at least one for \d+.
PhoneMatch(cleaned) ==
    LET rest == Tail(cleaned)
        ks == {k \in 1..3 :
                 /\ k < Len(rest)
                 /\ \A j \in 1..Len(rest) : rest[j] \in Digits}
    IN IF ks = {} THEN 0 ELSE CHOOSE k \in ks : \A j \in ks : j <= k

formatPhone(phone) ==
    IF phone = <<>> THEN <<>>
    ELSE LET cleaned == PhoneCleaned(phone)
         IN IF cleaned # <<>> /\ cleaned[1] = "+" /\ PhoneMatch(cleaned) > 0
            THEN LET k == PhoneMatch(cleaned)
                     rest == Tail(cleaned)
                 IN <<"+">> \o SubSeq(rest, 1, k) \o <<" ">> \o From(rest, k + 1)
            ELSE phone

\* ------------------------------------------------------------------------
\* cleanLocation
\* ------------------------------------------------------------------------
\* the separator class (\||,|\/|EN|-)
IsSep(c) == c \in {"|", ",", "/", "EN", "-"}

\* \b at position i: exactly one side is a word character
WordBoundary(s, i) ==
    LET before == i > 1 /\ IsWordChar(s[i - 1])
        after == i <= Len(s) /\ IsWordChar(s[i])
    IN before # after

\* the alternatives of the first pattern, in the order the regex tries them
RemoteWords ==
    << <<"r","e","m","o","t","e">>,
       <<"w","o","r","k"," ","f","r","o","m"," ","h","o","m","e">>,
       <<"w","f","h">>,
       <<"v","i","r","t","u","a","l">>,
       <<"f","u","l","l","y"," ","r","e","m","o","t","e">> >>

\* the alternatives of the second pattern
RemoteMarkers ==
    << <<"r","e","m","o","t","e">>,
       <<"w","f","h">>,
       <<"v","i","r","t","u","a","l">> >>

\* the length matched at i by the first alternative of words that occurs
\* there (ignoring case), 0 when none does
AltLenAt(s, i, words) ==
    LET hits == {k \in 1..Len(words) : StartsAtCI(s, i, words[k])}
    IN IF hits = {} THEN 0
       ELSE Len(words[CHOOSE k \in hits : \A j \in hits : k <= j])

\* the length matched at i by /\b(remote|work from home|wfh|virtual|fully remote)\b/i
WordMatchLen(s, i) ==
    LET hits == {k \in 1..Len(RemoteWords) :
                   /\ StartsAtCI(s, i, RemoteWords[k])
                   /\ WordBoundary(s, i)
                   /\ WordBoundary(s, i + Len(RemoteWords[k]))}
    IN IF hits = {} THEN 0
       ELSE Len(RemoteWords[CHOOSE k \in hits : \A j \in hits : k <= j])

\* .replace(/\b(remote|work from home|wfh|virtual|fully remote)\b/gi, '')
RECURSIVE StripRemoteWords(_, _)
StripRemoteWords(s, i) ==
    IF i > Len(s) THEN <<>>
    ELSE LET n == WordMatchLen(s, i)
         IN IF n > 0 THEN StripRemoteWords(s, i + n)
            ELSE <<s[i]>> \o StripRemoteWords(s, i + 1)

\* the position after a match of
\* /\s*[\(\[]?\s*(remote|wfh|virtual)\s*[\)\]]?\s*/i that starts at i,
\* 0 when there is none
MarkerMatchEnd(s, i) ==
    LET a == SkipSpace(s, i)
        b == IF a <= Len(s) /\ s[a] \in {"(", "["} THEN a + 1 ELSE a
        c == SkipSpace(s, b)
        n == AltLenAt(s, c, RemoteMarkers)
        d == SkipSpace(s, c + n)
        e == IF d <= Len(s) /\ s[d] \in {")", "]"} THEN d + 1 ELSE d
    IN IF n = 0 THEN 0 ELSE SkipSpace(s, e)

\* .replace(/\s*[\(\[]?\s*(remote|wfh|virtual)\s*[\)\]]?\s*/gi, '')
RECURSIVE StripRemoteMarkers(_, _)
StripRemoteMarkers(s, i) ==
    IF i > Len(s) THEN <<>>
    ELSE LET e == MarkerMatchEnd(s, i)
         IN IF e > 0 THEN StripRemoteMarkers(s, e)
            ELSE <<s[i]>> \o StripRemoteMarkers(s, i + 1)

\* the position after a match of /\s*SEP\s*/ that starts at i, 0 when none
SepMatchEnd(s, i) ==
    LET a == SkipSpace(s, i)
    IN IF a <= Len(s) /\ IsSep(s[a]) THEN SkipSpace(s, a + 1) ELSE 0

\* the position after a match of /\s*SEP\s*SEP\s*/ that starts at i
DoubleSepMatchEnd(s, i) ==
    LET a == SkipSpace(s, i)
        b == IF a <= Len(s) /\ IsSep(s[a]) THEN SkipSpace(s, a + 1) ELSE 0
    IN IF b > 0 /\ b <= Len(s) /\ IsSep(s[b]) THEN SkipSpace(s, b + 1) ELSE 0

\* .replace(/\s*(\||,|\/|EN|-)\s*(\||,|\/|EN|-)\s*/g, ' | ')
RECURSIVE JoinDoubleSeps(_, _)
JoinDoubleSeps(s, i) ==
    IF i > Len(s) THEN <<>>
    ELSE LET e == DoubleSepMatchEnd(s, i)
         IN IF e > 0 THEN <<" ", "|", " ">> \o JoinDoubleSeps(s, e)
            ELSE <<s[i]>> \o JoinDoubleSeps(s, i + 1)

\* .replace(/\s*(\||,|\/|EN|-)\s*$/g, ''): the leftmost i whose match ends
\* at the end of the string
StripTrailingSep(s) ==
    LET starts == {i \in 1..Len(s) : SepMatchEnd(s, i) = Len(s) + 1}
    IN IF starts = {} THEN s
       ELSE SubSeq(s, 1, (CHOOSE i \in starts : \A j \in starts : i <= j) - 1)

\* .replace(/^\s*(\||,|\/|EN|-)\s*/g, '')
StripLeadingSep(s) ==
    LET e == SepMatchEnd(s, 1)
    IN IF e > 0 THEN From(s, e) ELSE s

\* .replace(/\s{2,}/g, ' ')
RECURSIVE CollapseSpaces(_, _)
CollapseSpaces(s, i) ==
    IF i > Len(s) THEN <<>>
    ELSE LET e == SkipSpace(s, i)
         IN IF e - i >= 2 THEN <<" ">> \o CollapseSpaces(s, e)
            ELSE <<s[i]>> \o CollapseSpaces(s, i + 1)

cleanLocation(location) ==
    IF location = <<>> THEN <<>>
    ELSE LET s1 == StripRemoteWords(location, 1)
             s2 == StripRemoteMarkers(s1, 1)
             s3 == JoinDoubleSeps(s2, 1)
             s4 == StripTrailingSep(s3)
             s5 == StripLeadingSep(s4)
             s6 == CollapseSpaces(s5, 1)
         IN Trim(s6)

\* ------------------------------------------------------------------------
\* normalizeDates
\* ------------------------------------------------------------------------
\* .replace(/--/g, 'EN')
RECURSIVE ReplaceDoubleHyphen(_, _)
ReplaceDoubleHyphen(s, i) ==
    IF i > Len(s) THEN <<>>
    ELSE IF StartsAt(s, i, <<"-", "-">>)
         THEN <<"EN">> \o ReplaceDoubleHyphen(s, i + 2)
         ELSE <<s[i]>> \o ReplaceDoubleHyphen(s, i + 1)

\* .replace(/-/, 'EN'), without the g flag: the first hyphen only
ReplaceHyphenFirst(s) ==
    [i \in 1..Len(s) |->
        IF s[i] = "-" /\ (\A k \in 1..(i - 1) : s[k] # "-") THEN "EN" ELSE s[i]]

\* .replace(/-/g, 'EN')
ReplaceHyphen(s) == [i \in 1..Len(s) |-> IF s[i] = "-" THEN "EN" ELSE s[i]]

\* the position after a match of /\s*EN\s*/ that starts at i, 0 when none
DashMatchEnd(s, i) ==
    LET a == SkipSpace(s, i)
    IN IF a <= Len(s) /\ s[a] = "EN" THEN SkipSpace(s, a + 1) ELSE 0

\* .replace(/\s*EN\s*/g, ' EN ')
RECURSIVE SpaceDashes(_, _)
SpaceDashes(s, i) ==
    IF i > Len(s) THEN <<>>
    ELSE LET e == DashMatchEnd(s, i)
         IN IF e > 0 THEN <<" ", "EN", " ">> \o SpaceDashes(s, e)
            ELSE <<s[i]>> \o SpaceDashes(s, i + 1)

\* dateStr is the string String(dateStr) of a truthy value, or <<>>
normalizeDates(dateStr) ==
    IF dateStr = <<>> THEN <<>>
    ELSE SpaceDashes(ReplaceHyphen(ReplaceDoubleHyphen(dateStr, 1)), 1)

\* ------------------------------------------------------------------------
\* JavaScript values of a profile record.
\*   [t |-> type, v |-> payload]; the payload of a string is its characters,
\*   of a number its decimal digits, of an array its elements, of an object
\*   the record of its own properties.
\* ------------------------------------------------------------------------
Undef == [t |-> "undefined", v |-> <<>>]

Null == [t |-> "null", v |-> <<>>]

Str(s) == [t |-> "string", v |-> s]

Num(digits) == [t |-> "number", v |-> digits]

Arr(xs) == [t |-> "array", v |-> xs]

Obj(r) == [t |-> "object", v |-> r]

EmptyStr == Str(<<>>)

\* ToBoolean
Truthy(x) ==
    CASE x.t \in {"undefined", "null"} -> FALSE
      [] x.t = "string" -> x.v # <<>>
      [] x.t = "number" -> x.v # <<"0">>
      [] x.t = "boolean" -> x.v = <<"t","r","u","e">>
      [] OTHER -> TRUE

\* a || b
Or(a, b) == IF Truthy(a) THEN a ELSE b

\* o?.k, and o.k on a value that is neither null nor undefined
Get(o, k) ==
    IF o.t = "object" /\ k \in DOMAIN o.v THEN o.v[k] ELSE Undef

\* o.k throws a TypeError on null and undefined
HasProps(o) == o.t \notin {"undefined", "null"}

\* Array.isArray
IsArray(x) == x.t = "array"

\* the strings of ss joined with sep between them
RECURSIVE Join(_, _)
Join(ss, sep) ==
    IF ss = <<>> THEN <<>>
    ELSE IF Len(ss) = 1 THEN ss[1]
    ELSE ss[1] \o sep \o Join(Tail(ss), sep)

\* String(x), as template literals and Array.prototype.join apply it
RECURSIVE ToStr(_)
ToStr(x) ==
    CASE x.t = "string" -> x.v
      [] x.t = "number" -> x.v
      [] x.t = "undefined" -> <<"u","n","d","e","f","i","n","e","d">>
      [] x.t = "null" -> <<"n","u","l","l">>
      [] x.t = "array" ->
           Join([i \in 1..Len(x.v) |->
                   IF HasProps(x.v[i]) THEN ToStr(x.v[i]) ELSE <<>>], <<",">>)
      [] OTHER -> <<"[","o","b","j","e","c","t"," ","O","b","j","e","c","t","]">>

\* Array.prototype.join(sep) of an array value
JoinValues(xs, sep) ==
    Join([i \in 1..Len(xs) |-> IF HasProps(xs[i]) THEN ToStr(xs[i]) ELSE <<>>], sep)

\* a completion: a returned value, or a thrown exception with its message
Return(x) == [threw |-> FALSE, value |-> x, message |-> ""]

Throw(msg) == [threw |-> TRUE, value |-> Null, message |-> msg]

\* ------------------------------------------------------------------------
\* parseProfileExperience
\* ------------------------------------------------------------------------
\* the marker class [-BULLET*SQUARE TRI PTR]
BulletGlyphs == {"-", "BULLET", "*", "SQUARE", "TRI", "PTR"}

\* s.split('\n')
RECURSIVE SplitLines(_)
SplitLines(s) ==
    LET nl == {i \in 1..Len(s) : s[i] = "\n"}
    IN IF nl = {} THEN <<s>>
       ELSE LET i == CHOOSE k \in nl : \A j \in nl : k <= j
            IN <<SubSeq(s, 1, i - 1)>> \o SplitLines(From(s, i + 1))

\* bullet.replace(/^[-BULLET*SQUARE TRI PTR]\s*/, '')
StripMarker(bullet) ==
    IF bullet # <<>> /\ bullet[1] \in BulletGlyphs
    THEN From(bullet, SkipSpace(bullet, 2))
    ELSE bullet

\* bullet.replace(/^[...]\s*/, '').trim()
CleanBullet(bullet) == Trim(StripMarker(bullet))

\* job.bullets || job.achievements || job.responsibilities || []
JobBullets(job) ==
    Or(Or(Or(Get(job, "bullets"), Get(job, "achievements")),
          Get(job, "responsibilities")), Arr(<<>>))

\* the bullets as the list that .map runs over: a string is split on '\n'
\* and its blank lines dropped
BulletList(bullets) ==
    IF bullets.t = "string"
    THEN LET parts == SplitLines(bullets.v)
             kept == SelectSeq(parts, LAMBDA b : Trim(b) # <<>>)
         IN [i \in 1..Len(kept) |-> Str(kept[i])]
    ELSE bullets.v

JobCompany(job) == Or(Or(Get(job, "company"), Get(job, "organization")), EmptyStr)

JobTitle(job) ==
    Or(Or(Or(Get(job, "title"), Get(job, "position")), Get(job, "role")), EmptyStr)

\* the dates before normalisation: a value, or the string built from
\* startDate / endDate
JobDates(job) ==
    LET dates == Or(Or(Get(job, "dates"), Get(job, "duration")), EmptyStr)
        startDate == Get(job, "startDate")
        endDate == Get(job, "endDate")
        start == Or(startDate, EmptyStr)
        end == Or(endDate, Str(<<"P","r","e","s","e","n","t">>))
    IN IF ~Truthy(dates) /\ (Truthy(startDate) \/ Truthy(endDate))
       THEN IF Truthy(start)
            THEN Str(ToStr(start) \o <<" ", "-", " ">> \o ToStr(end))
            ELSE end
       ELSE dates

\* the TypeError one forEach iteration throws, "" when it throws none
JobError(job) ==
    IF ~HasProps(job) THEN "Cannot read properties of null"
    ELSE IF JobCompany(job).t # "string" THEN "company.trim is not a function"
    ELSE IF JobTitle(job).t # "string" THEN "title.trim is not a function"
    ELSE IF JobBullets(job).t \notin {"string", "array"}
         THEN "bullets.map is not a function"
    ELSE IF \E i \in 1..Len(BulletList(JobBullets(job))) :
                BulletList(JobBullets(job))[i].t # "string"
         THEN "bullet.replace is not a function"
    ELSE ""

\* the entry one forEach iteration pushes
ParseJob(job) ==
    LET company == Trim(JobCompany(job).v)
        title == Trim(JobTitle(job).v)
        rawDates == JobDates(job)
        dates == IF Truthy(rawDates) THEN normalizeDates(ToStr(rawDates)) ELSE <<>>
        list == BulletList(JobBullets(job))
        cleaned == [i \in 1..Len(list) |-> CleanBullet(list[i].v)]
    IN [company |-> company,
        title |-> title,
        titleLine |-> IF dates # <<>> THEN title \o <<" ", "|", " ">> \o dates
                      ELSE title,
        dates |-> dates,
        location |-> Or(Get(job, "location"), EmptyStr),
        bullets |-> SelectSeq(cleaned, LAMBDA b : Len(b) > 0)]

\* workExperience is the element list of an array
parseProfileExperience(workExperience) ==
    LET bad == {i \in 1..Len(workExperience) : JobError(workExperience[i]) # ""}
    IN IF bad # {}
       THEN Throw(JobError(workExperience[CHOOSE i \in bad : \A j \in bad : i <= j]))
       ELSE Return([i \in 1..Len(workExperience) |-> ParseJob(workExperience[i])])

\* ------------------------------------------------------------------------
\* extractTechnicalExperience and the extractors it calls
\* ------------------------------------------------------------------------
ProfilePhone(profile) == Or(Get(profile, "phone"), EmptyStr)

ProfileLocation(profile) ==
    Or(Or(Get(profile, "city"), Get(profile, "location")), EmptyStr)

\* the TypeError extractContactInfo throws, "" when it throws none:
\* formatPhone and cleanLocation call .replace on a truthy argument
ContactError(profile) ==
    IF ProfilePhone(profile).t # "string" THEN "phone.replace is not a function"
    ELSE IF ProfileLocation(profile).t # "string"
         THEN "location.replace is not a function"
    ELSE ""

extractContactInfo(profile) ==
    LET firstName == Or(Or(Get(profile, "firstName"), Get(profile, "first_name")), EmptyStr)
        lastName == Or(Or(Get(profile, "lastName"), Get(profile, "last_name")), EmptyStr)
    IN [name |-> Trim(ToStr(firstName) \o <<" ">> \o ToStr(lastName)),
        email |-> Or(Get(profile, "email"), EmptyStr),
        phone |-> Str(formatPhone(ProfilePhone(profile).v)),
        location |-> Str(cleanLocation(ProfileLocation(profile).v)),
        linkedin |-> Or(Get(profile, "linkedin"), EmptyStr),
        github |-> Or(Get(profile, "github"), EmptyStr),
        portfolio |-> Or(Get(profile, "portfolio"), EmptyStr)]

extractSummary(profile) ==
    Or(Or(Or(Get(profile, "summary"), Get(profile, "professionalSummary")),
          Get(profile, "profile")), EmptyStr)

\* profile?.education || []
ProfileEducation(profile) == Or(Get(profile, "education"), Arr(<<>>))

\* the TypeError extractEducation throws: edu.institution on null / undefined
EducationError(profile) ==
    LET education == ProfileEducation(profile)
    IN IF IsArray(education) /\ \E i \in 1..Len(education.v) : ~HasProps(education.v[i])
       THEN "Cannot read properties of null"
       ELSE ""

extractEducation(profile) ==
    LET education == ProfileEducation(profile)
    IN IF ~IsArray(education) THEN <<>>
       ELSE [i \in 1..Len(education.v) |->
               LET edu == education.v[i]
               IN [institution |-> Or(Or(Or(Get(edu, "institution"), Get(edu, "school")),
                                         Get(edu, "university")), EmptyStr),
                   degree |-> Or(Get(edu, "degree"), EmptyStr),
                   dates |-> Or(Or(Get(edu, "dates"), Get(edu, "graduationDate")), EmptyStr),
                   gpa |-> Or(Get(edu, "gpa"), EmptyStr)]]

\* extractSkills and extractCertifications share this shape
JoinedList(list) ==
    IF IsArray(list) THEN JoinValues(list.v, <<",", " ">>)
    ELSE IF list.t = "string" THEN list.v
    ELSE <<>>

extractSkills(profile) == JoinedList(Or(Get(profile, "skills"), Arr(<<>>)))

extractCertifications(profile) ==
    JoinedList(Or(Get(profile, "certifications"), Arr(<<>>)))

\* a list that falls back to the education entries when the profile has no
\* work experience of its own
ProfileWorkExperienceFallback(profileData) ==
    LET own == Or(Or(Get(profileData, "workExperience"),
                     Get(profileData, "work_experience")), Arr(<<>>))
    IN IF IsArray(own) /\ Len(own.v) > 0 THEN own
       ELSE Or(Get(profileData, "education"), Arr(<<>>))

\* profileData?.workExperience || profileData?.work_experience || []
ProfileWorkExperience(profileData) ==
    Or(Or(Get(profileData, "workExperience"), Get(profileData, "work_experience")),
       Arr(<<>>))

\* the experience step: data.experience, or the exception of
\* parseProfileExperience
ExperienceStep(profileData) ==
    LET workExperience == ProfileWorkExperience(profileData)
    IN IF IsArray(workExperience) /\ Len(workExperience.v) > 0
       THEN parseProfileExperience(workExperience.v)
       ELSE Return(<<>>)

extractTechnicalExperience(profileData) ==
    IF ContactError(profileData) # "" THEN Throw(ContactError(profileData))
    ELSE IF ExperienceStep(profileData).threw THEN ExperienceStep(profileData)
    ELSE IF EducationError(profileData) # "" THEN Throw(EducationError(profileData))
    ELSE Return([contact |-> extractContactInfo(profileData),
                 summary |-> extractSummary(profileData),
                 experience |-> ExperienceStep(profileData).value,
                 education |-> extractEducation(profileData),
                 skills |-> extractSkills(profileData),
                 certifications |-> extractCertifications(profileData)])

\* ------------------------------------------------------------------------
\* parseFromProfilePage
\* ------------------------------------------------------------------------
\* the metadata stamp; the timestamp is not modelled
enhanceForATS(data) ==
    [data |-> data,
     metadata |-> [parser |-> "ProfileOnlyParser",
                   source |-> "profile_page_only",
                   atsVersion |-> "1.0.0"]]

\* the resolved value of the async function: the try block's result, or
\* the catch block's
parseFromProfilePage(profileData) ==
    LET parsedData == extractTechnicalExperience(profileData)
    IN IF parsedData.threw
       THEN Return([success |-> FALSE, error |-> parsedData.message,
                    data |-> Null, source |-> ""])
       ELSE Return([success |-> TRUE, error |-> "",
                    data |-> enhanceForATS(parsedData.value),
                    source |-> "profile_page_only"])

\* ------------------------------------------------------------------------
\* generateATSText
\* ------------------------------------------------------------------------
S_OpenToRelocation ==
    <<" ","|"," ","O","p","e","n"," ","t","o"," ","r","e","l","o","c","a","t","i","o","n">>

S_Summary ==
    <<"P","R","O","F","E","S","S","I","O","N","A","L"," ","S","U","M","M","A","R","Y">>

S_Experience == <<"W","O","R","K"," ","E","X","P","E","R","I","E","N","C","E">>

S_Education == <<"E","D","U","C","A","T","I","O","N">>

S_Skills == <<"S","K","I","L","L","S">>

S_Certifications == <<"C","E","R","T","I","F","I","C","A","T","I","O","N","S">>

Bar == <<" ", "|", " ">>

\* the lines one job contributes
JobLines(job) ==
    <<job.company, job.titleLine>>
    \o [i \in 1..Len(job.bullets) |-> <<"BULLET", " ">> \o job.bullets[i]]
    \o << <<>> >>

\* a line that also carries the dates of the entry
EducationLineWithDates(edu) ==
    JoinValues(<<edu.degree, edu.institution>>
               \o (IF Truthy(edu.dates) THEN <<edu.dates>> ELSE <<>>)
               \o (IF Truthy(edu.gpa) THEN <<edu.gpa>> ELSE <<>>), Bar)

\* the line of one education entry: degree, institution and, when truthy, gpa
EducationLine(edu) ==
    JoinValues(<<edu.degree, edu.institution>>
               \o (IF Truthy(edu.gpa) THEN <<edu.gpa>> ELSE <<>>), Bar)

\* the lines pushed for the parsed profile
ATSLines(parsed) ==
    LET contact == parsed.contact
        contactParts == SelectSeq(<<contact.phone, contact.email, contact.location>>, Truthy)
        links == SelectSeq(<<contact.linkedin, contact.github, contact.portfolio>>, Truthy)
    IN << [i \in 1..Len(contact.name) |-> ToUpper(contact.name[i]) ] >>
       \o (IF Len(contactParts) > 0
           THEN << JoinValues(contactParts, Bar)
                   \o (IF Truthy(contact.location) THEN S_OpenToRelocation ELSE <<>>) >>
           ELSE <<>>)
       \o (IF Len(links) > 0 THEN << JoinValues(links, Bar) >> ELSE <<>>)
       \o << <<>> >>
       \o (IF Truthy(parsed.summary)
           THEN <<S_Summary, ToStr(parsed.summary), <<>> >>
           ELSE <<>>)
       \o (IF Len(parsed.experience) > 0
           THEN <<S_Experience>>
                \o Flatten([i \in 1..Len(parsed.experience) |-> JobLines(parsed.experience[i])])
           ELSE <<>>)
       \o (IF Len(parsed.education) > 0
           THEN <<S_Education>>
                \o [i \in 1..Len(parsed.education) |-> EducationLine(parsed.education[i])]
                \o << <<>> >>
           ELSE <<>>)
       \o (IF parsed.skills # <<>> THEN <<S_Skills, parsed.skills, <<>> >> ELSE <<>>)
       \o (IF parsed.certifications # <<>>
           THEN <<S_Certifications, parsed.certifications>>
           ELSE <<>>)

\* no try / catch: an exception of extractTechnicalExperience propagates
generateATSText(profileData) ==
    LET parsed == extractTechnicalExperience(profileData)
    IN IF parsed.threw THEN parsed
       ELSE Return(Join(ATSLines(parsed.value), <<"\n">>))

\* ------------------------------------------------------------------------
\* Inputs of the ProfileOnlyParser functions.
\* ------------------------------------------------------------------------
PhoneExampleSpaced == <<"+","1"," ","2","3","4","5","6","7","8","9","0","1">>

PhoneExamplePlain == <<"+","1","2","3","4","5","6","7","8","9","0","1">>

PhoneFrags == {<<"+">>, <<"1">>, <<" ">>, <<"2", "3">>, <<"(">>, <<"-">>}

PhoneInputs ==
    {PhoneExampleSpaced, PhoneExamplePlain} \cup FragStrings(PhoneFrags, MaxPhoneFrags)

LocRemoteUSA == <<"R","e","m","o","t","e"," ","(","U","S","A",")">>

LocNewYorkRemote ==
    <<"N","e","w"," ","Y","o","r","k",","," ","R","e","m","o","t","e">>

LocFrags ==
    {<<"R","e","m","o","t","e">>, <<"w","f","h">>, <<"U","S","A">>, <<"r","e">>,
     <<"m","o","t","e">>, <<" ">>, <<"(">>, <<")">>, <<",">>, <<"-">>}

LocInputs ==
    {LocRemoteUSA, LocNewYorkRemote,
     <<"W","o","r","k"," ","f","r","o","m"," ","h","o","m","e"," ","/"," ","U","K">>}
    \cup FragStrings(LocFrags, MaxLocFrags)

Date2019 == <<"2","0","1","9">>

Date2021 == <<"2","0","2","1">>

\* date parts: no hyphen, no dash, no white space at either end
DateParts ==
    {Date2019, Date2021, <<"J","a","n"," ","2","0","2","0">>,
     <<"P","r","e","s","e","n","t">>}

Blanks == {<<>>, <<" ">>, <<" ", " ">>}

\* the hyphen variants: a hyphen, a double hyphen or an en dash, with or
\* without white space next to it
HyphenVariants ==
    {l \o h \o r : l \in Blanks, h \in {<<"-">>, <<"-", "-">>, <<"EN">>}, r \in Blanks}

DateFrags ==
    {Date2019, Date2021, <<"J","a","n">>, <<"-">>, <<"-", "-">>, <<"EN">>, <<" ">>}

DateInputs ==
    {a \o h \o b : a \in DateParts, h \in HyphenVariants, b \in DateParts}
    \cup {Date2019 \o h \o Date2021 \o g \o <<"J","a","n">> :
            h \in HyphenVariants, g \in {<<"-">>, <<" ", "EN", " ">>}}
    \cup FragStrings(DateFrags, MaxDateFrags)

BulletFrags ==
    {<<" ">>, <<"-">>, <<"BULLET">>, <<"*", " ">>, <<"f","o","o">>, <<"a"," ","b"," ">>}

BulletStrings == FragStrings(BulletFrags, MaxBulletFrags)

SecondBullet == <<"*", " ", "x">>

\* the bullets property of a job: an array of one or two strings, or the
\* same lines as one newline-separated string
BulletValues ==
    {Arr(<<Str(b)>>) : b \in BulletStrings}
    \cup {Arr(<<Str(b), Str(SecondBullet)>>) : b \in BulletStrings}
    \cup {Str(b) : b \in BulletStrings}
    \cup {Str(b \o <<"\n">> \o SecondBullet) : b \in BulletStrings}

JobAcme ==
    Obj([company |-> Str(<<"A","c","m","e">>), title |-> Str(<<"D","e","v">>),
         dates |-> Str(<<"2","0","1","9","-","2","0","2","1">>),
         bullets |-> Arr(<<Str(<<"-"," ","B","u","i","l","t">>)>>)])

JobInitech ==
    Obj([organization |-> Str(<<"I","n","i","t","e","c","h">>),
         role |-> Str(<<"Q","A">>), startDate |-> Str(Date2021),
         responsibilities |-> Str(<<"BULLET"," ","R","a","n","\n"," ","-"," ","F","i","x">>)])

JobBadBullet ==
    Obj([company |-> Str(<<"A","c","m","e">>), bullets |-> Arr(<<Num(<<"7">>)>>)])

\* the work-experience lists parseProfileExperience is called with
WorkLists ==
    {<<Obj([company |-> Str(<<"A","c","m","e">>), bullets |-> b])>> : b \in BulletValues}
    \cup {<<JobAcme, JobInitech>>, <<Null>>, <<JobAcme, JobBadBullet>>,
          <<Obj([company |-> Num(<<"4","2">>)])>>,
          <<Obj([title |-> Str(<<"D","e","v">>), bullets |-> Num(<<"3">>)])>>}

EduMIT ==
    Obj([institution |-> Str(<<"M","I","T">>), degree |-> Str(<<"B","S","c">>),
         dates |-> Str(<<"2","0","1","5">>)])

WorkExperienceValues ==
    {Undef, Null, Arr(<<>>), Str(<<"n","/","a">>), Obj([length |-> Num(<<"1">>)]),
     Arr(<<JobAcme>>), Arr(<<JobAcme, JobInitech>>), Arr(<<Null>>), Arr(<<JobBadBullet>>)}

WorkExperienceSnakeValues == {Undef, Arr(<<>>), Arr(<<JobInitech>>), Num(<<"0">>)}

EduETH ==
    Obj([school |-> Str(<<"E","T","H">>), degree |-> Str(<<"M","S","c">>),
         graduationDate |-> Str(<<"2","0","1","8">>), gpa |-> Str(<<"3",".","9">>)])

EducationValues ==
    {Undef, Arr(<<EduMIT>>), Arr(<<EduMIT, EduETH>>), Arr(<<Null>>), Str(<<"M","I","T">>)}

PhoneValues == {Undef, Str(PhoneExamplePlain), Num(<<"5","5","5">>)}

SummaryValues == {Undef, Str(<<"D","e","v">>)}

SkillsValues ==
    {Undef, Arr(<<Str(<<"G","o">>), Str(<<"S","Q","L">>)>>), Str(<<"G","o">>)}

CertificationValues == {Undef, Arr(<<Str(<<"A","W","S">>)>>)}

LocationValues == {Undef, Str(LocRemoteUSA)}

ProfileObjects ==
    {Obj([firstName |-> Str(<<"A","d","a">>), last_name |-> Str(<<"L","o">>),
          email |-> Str(<<"a","@","b">>), github |-> Str(<<"g","h">>),
          phone |-> ph, location |-> loc, summary |-> su,
          workExperience |-> we, work_experience |-> ws, education |-> ed,
          skills |-> sk, certifications |-> ce]) :
       ph \in PhoneValues, loc \in LocationValues, su \in SummaryValues,
       we \in WorkExperienceValues, ws \in WorkExperienceSnakeValues,
       ed \in EducationValues, sk \in SkillsValues, ce \in CertificationValues}

Profiles == {Null, Undef, Obj([email |-> Str(<<"a","@","b">>)])} \cup ProfileObjects

\* ------------------------------------------------------------------------
\* The ProfileOnlyParser functions, each applied to one input.
\* ------------------------------------------------------------------------
Pending == [threw |-> FALSE, value |-> Undef, message |-> "pending"]

\* the locals of the serve handler before its first statement
NoLocals ==
    [authHeader |-> Undef, user |-> Undef, authError |-> Undef,
     cvFilePath |-> Undef, debug |-> Undef,
     fileData |-> Undef, downloadError |-> Undef,
     fileExtension |-> <<>>, textContent |-> <<>>, textIsReadable |-> FALSE,
     usedInputType |-> "", debugPayload |-> Null,
     kimiKey |-> Undef, openaiKey |-> Undef, apiUrl |-> "", model |-> "",
     extractionData |-> Undef, parsedData |-> Undef, focusedJson |-> Undef]

Init ==
    /\ pc = "ready"
    /\ ret = Pending
    /\ locals = NoLocals
    /\ effects = <<>>
    /\ \/ call = "formatPhone" /\ arg \in PhoneInputs
       \/ call = "cleanLocation" /\ arg \in LocInputs
       \/ call = "normalizeDates" /\ arg \in DateInputs
       \/ call = "parseProfileExperience" /\ arg \in WorkLists
       \/ call \in {"extractTechnicalExperience", "parseFromProfilePage",
                    "generateATSText"}
          /\ arg \in Profiles

Finish(completion) ==
    /\ pc = "ready"
    /\ ret' = completion
    /\ pc' = "done"
    /\ UNCHANGED <<call, arg, locals, effects>>

FormatPhone == call = "formatPhone" /\ Finish(Return(formatPhone(arg)))

CleanLocation == call = "cleanLocation" /\ Finish(Return(cleanLocation(arg)))

NormalizeDates == call = "normalizeDates" /\ Finish(Return(normalizeDates(arg)))

ParseProfileExperience ==
    call = "parseProfileExperience" /\ Finish(parseProfileExperience(arg))

ExtractTechnicalExperience ==
    call = "extractTechnicalExperience" /\ Finish(extractTechnicalExperience(arg))

ParseFromProfilePage ==
    call = "parseFromProfilePage" /\ Finish(parseFromProfilePage(arg))

GenerateATSText == call = "generateATSText" /\ Finish(generateATSText(arg))

Next ==
    \/ FormatPhone
    \/ CleanLocation
    \/ NormalizeDates
    \/ ParseProfileExperience
    \/ ExtractTechnicalExperience
    \/ ParseFromProfilePage
    \/ GenerateATSText

Spec == Init /\ [][Next]_vars

Returned(f) == call = f /\ pc = "done" /\ ~ret.threw

Threw(f) == call = f /\ pc = "done" /\ ret.threw

\* ------------------------------------------------------------------------
\* Claims about the ProfileOnlyParser functions (specification Spec).
\* ------------------------------------------------------------------------
\* a work-experience property that is absent, not an array, or empty
NoList(x) == ~IsArray(x) \/ Len(x.v) = 0

NoWorkExperience(profile) ==
    /\ NoList(Get(profile, "workExperience"))
    /\ NoList(Get(profile, "work_experience"))

\* the list under the first work-experience key that holds a truthy value
FirstWorkList(profile) ==
    LET camel == Get(profile, "workExperience")
        snake == Get(profile, "work_experience")
        first == IF Truthy(camel) THEN camel ELSE snake
    IN IF IsArray(first) THEN first.v ELSE <<>>

\* the other fields hold what a profile record holds: the phone is a string
\* or absent, the education entries are objects
WellFormedOthers(profile) ==
    /\ Get(profile, "phone").t \in {"undefined", "string"}
    /\ LET education == Get(profile, "education")
       IN IsArray(education) => \A i \in 1..Len(education.v) : HasProps(education.v[i])

\* C1: when the work-experience list is absent, not an array or empty under
\* both keys, extractTechnicalExperience returns, and the experience list it
\* returns is empty whatever the other fields hold; in every case the
\* returned list has one entry per entry of the profile's work-experience
\* list and none from any other field.
C1_NoFallbackExperience ==
    /\ Returned("extractTechnicalExperience") =>
          /\ NoWorkExperience(arg) => ret.value.experience = <<>>
          /\ Len(ret.value.experience) = Len(FirstWorkList(arg))
    /\ (call = "extractTechnicalExperience" /\ pc = "done"
          /\ NoWorkExperience(arg) /\ WellFormedOthers(arg)) => ~ret.threw

\* C1 witness: a profile without work experience whose education, summary
\* and skills are filled yields an empty experience list.
C1_Witness ==
    /\ Returned("extractTechnicalExperience")
    /\ NoWorkExperience(arg)
    /\ Truthy(Get(arg, "workExperience"))
    /\ IsArray(Get(arg, "education"))
    /\ Truthy(Get(arg, "summary"))
    /\ Len(ret.value.education) > 0
    /\ ret.value.experience = <<>>

\* C2: formatPhone maps "+1 2345678901" to itself, "+12345678901" to
\* "+1 2345678901", and returns every input that does not begin with "+"
\* exactly as given.
C2_FormatPhoneAsClaimed ==
    Returned("formatPhone") =>
        /\ arg = PhoneExampleSpaced => ret.value = PhoneExampleSpaced
        /\ arg = PhoneExamplePlain => ret.value = PhoneExampleSpaced
        /\ (arg = <<>> \/ arg[1] # "+") => ret.value = arg

\* the remote / work-from-home markers cleanLocation removes
HasRemoteMarker(s) == \E k \in 1..Len(RemoteWords) : ContainsCI(s, RemoteWords[k])

IsEdgePunctuation(c) == IsSep(c) \/ c \in {"(", ")", "[", "]"}

\* C3: cleanLocation maps "Remote (USA)" to "USA" and "New York, Remote" to
\* "New York"; the result holds no remote marker, and where a marker was
\* removed no separator or bracket is left at either end of the result.
C3_CleanLocationAsClaimed ==
    Returned("cleanLocation") =>
        /\ arg = LocRemoteUSA => ret.value = <<"U","S","A">>
        /\ arg = LocNewYorkRemote => ret.value = <<"N","e","w"," ","Y","o","r","k">>
        /\ ~HasRemoteMarker(ret.value)
        /\ (HasRemoteMarker(arg) /\ ret.value # <<>>) =>
              /\ ~IsEdgePunctuation(ret.value[1])
              /\ ~IsEdgePunctuation(ret.value[Len(ret.value)])

SpacedDash == <<" ", "EN", " ">>

\* C4: normalizeDates maps "2019-2021" and "2019--2021" to "2019 EN 2021";
\* every hyphen variant between two date parts becomes one en dash with one
\* space on each side, and no ASCII hyphen is left in any result, also in
\* the dates parseProfileExperience builds from startDate and endDate.
C4_NormalizeDates ==
    /\ Returned("normalizeDates") =>
          /\ arg = Date2019 \o <<"-">> \o Date2021 =>
                ret.value = Date2019 \o SpacedDash \o Date2021
          /\ arg = Date2019 \o <<"-", "-">> \o Date2021 =>
                ret.value = Date2019 \o SpacedDash \o Date2021
          /\ \A a \in DateParts, b \in DateParts, h \in HyphenVariants :
                arg = a \o h \o b => ret.value = a \o SpacedDash \o b
          /\ \A h \in HyphenVariants, g \in HyphenVariants :
                arg = Date2019 \o h \o Date2021 \o g \o <<"J","a","n">> =>
                   ret.value = Date2019 \o SpacedDash \o Date2021
                               \o SpacedDash \o <<"J","a","n">>
          /\ \A i \in 1..Len(ret.value) : ret.value[i] # "-"
    /\ Returned("parseProfileExperience") =>
          \A j \in 1..Len(ret.value) :
             \A i \in 1..Len(ret.value[j].dates) : ret.value[j].dates[i] # "-"

\* C4 witness: a double hyphen with white space around it, between three
\* date parts, has been normalised.
C4_Witness ==
    /\ Returned("normalizeDates")
    /\ arg = Date2019 \o <<" ", "-", "-", " ", " ">> \o Date2021 \o <<"-">> \o <<"J","a","n">>
    /\ ret.value = Date2019 \o SpacedDash \o Date2021 \o SpacedDash \o <<"J","a","n">>

\* the bullet as the claim describes its cleaning: the white space before a
\* leading marker glyph, the glyph and the white space after it removed
ClaimedCleanBullet(bullet) ==
    LET s == TrimStart(bullet)
    IN IF s # <<>> /\ s[1] \in BulletGlyphs THEN Trim(Tail(s)) ELSE Trim(bullet)

\* the bullet strings of a bullets value, array or newline-separated string
ClaimedBulletLines(bullets) ==
    IF bullets.t = "string" THEN SplitLines(bullets.v)
    ELSE [i \in 1..Len(bullets.v) |-> bullets.v[i].v]

\* a job list of one job whose bullets are strings
IsBulletCase(list) ==
    /\ Len(list) = 1
    /\ list[1].t = "object"
    /\ "bullets" \in DOMAIN list[1].v
    /\ list[1].v.bullets.t \in {"string", "array"}
    /\ list[1].v.bullets.t = "array" =>
          \A i \in 1..Len(list[1].v.bullets.v) : list[1].v.bullets.v[i].t = "string"

\* C5: each cleaned bullet is its input without the single leading marker
\* glyph and the white space on either side of the glyph, all else kept in
\* order, for bullets given as an array and as a newline-separated string.
C5_BulletCleaningAsClaimed ==
    (Returned("parseProfileExperience") /\ IsBulletCase(arg)) =>
        LET lines == ClaimedBulletLines(arg[1].v.bullets)
            claimed == [i \in 1..Len(lines) |-> ClaimedCleanBullet(lines[i])]
        IN ret.value[1].bullets = SelectSeq(claimed, LAMBDA b : b # <<>>)

\* C6: parseFromProfilePage and generateATSText never throw: a failure is
\* the returned value {success: false, error, data: null}, and a success
\* has success: true and data that is not null.
C6_NeverThrowsAsClaimed ==
    (pc = "done" /\ call \in {"parseFromProfilePage", "generateATSText"}) =>
        /\ ~ret.threw
        /\ call = "parseFromProfilePage" =>
              IF ret.value.success
              THEN ret.value.data # Null
              ELSE ret.value.data = Null /\ ret.value.error # ""

\* the index of the first line of lines that equals h, 0 when there is none
HeaderIndex(lines, h) ==
    LET at == {i \in 1..Len(lines) : lines[i] = h}
    IN IF at = {} THEN 0 ELSE Least(at)

\* the offset, from the WORK EXPERIENCE header, of the company line of job k:
\* each earlier job takes its company line, its title line, its bullets and
\* a blank line
RECURSIVE JobOffset(_, _)
JobOffset(jobs, k) ==
    IF k = 1 THEN 1 ELSE JobOffset(jobs, k - 1) + 3 + Len(jobs[k - 1].bullets)

\* 1 for a block that is present, 0 otherwise
Count(present) == IF present THEN 1 ELSE 0

\* C16: the rendered lines appear in the block order name, contact line,
\* links, PROFESSIONAL SUMMARY, WORK EXPERIENCE, EDUCATION, SKILLS,
\* CERTIFICATIONS; the name line is always there and every other block
\* exactly when its data is non-empty; under WORK EXPERIENCE there is one job
\* per work-experience entry of the profile, in the profile's order, each as
\* company line, title line and then its bullets; and no EDUCATION line
\* contains the dates of its entry.
C16_ATSTextBlocks ==
    Returned("generateATSText") =>
        LET lines == SplitLines(ret.value)
            parsed == extractTechnicalExperience(arg).value
            contact == parsed.contact
            jobs == parsed.experience
            entries == FirstWorkList(arg)
            hasContact == \E x \in {contact.phone, contact.email, contact.location} : Truthy(x)
            hasLinks == \E x \in {contact.linkedin, contact.github, contact.portfolio} : Truthy(x)
            top == 1 + Count(hasContact) + Count(hasLinks)
            summaryAt == HeaderIndex(lines, S_Summary)
            experienceAt == HeaderIndex(lines, S_Experience)
            educationAt == HeaderIndex(lines, S_Education)
            skillsAt == HeaderIndex(lines, S_Skills)
            certificationsAt == HeaderIndex(lines, S_Certifications)
            headers == <<summaryAt, experienceAt, educationAt, skillsAt, certificationsAt>>
            jobLines == IF jobs = <<>> THEN 0
                        ELSE JobOffset(jobs, Len(jobs)) + 3 + Len(jobs[Len(jobs)].bullets)
        IN \* the name, the contact line and the links come first, in this order
           /\ lines[1] = [i \in 1..Len(contact.name) |-> ToUpper(contact.name[i])]
           /\ hasContact =>
                 \A x \in {contact.phone, contact.email, contact.location} :
                     Truthy(x) => Contains(lines[2], x.v)
           /\ hasLinks =>
                 \A x \in {contact.linkedin, contact.github, contact.portfolio} :
                     Truthy(x) => Contains(lines[top], x.v)
           /\ lines[top + 1] = <<>>
           /\ \A a \in 1..5 : headers[a] > 0 => headers[a] > top + 1
           \* the headed blocks follow in the fixed order
           /\ \A a, b \in 1..5 :
                 (a < b /\ headers[a] > 0 /\ headers[b] > 0) => headers[a] < headers[b]
           \* a block is there exactly when its data is non-empty
           /\ summaryAt > 0 <=> Truthy(parsed.summary)
           /\ experienceAt > 0 <=> entries # <<>>
           /\ educationAt > 0 <=> parsed.education # <<>>
           /\ skillsAt > 0 <=> parsed.skills # <<>>
           /\ certificationsAt > 0 <=> parsed.certifications # <<>>
           /\ Len(lines) = top + 1 + 3 * Count(summaryAt > 0) + jobLines
                             + Count(educationAt > 0) * (2 + Len(parsed.education))
                             + 3 * Count(skillsAt > 0) + 2 * Count(certificationsAt > 0)
           /\ summaryAt > 0 => lines[summaryAt + 1] = ToStr(parsed.summary)
           /\ skillsAt > 0 => lines[skillsAt + 1] = parsed.skills
           /\ certificationsAt > 0 => lines[certificationsAt + 1] = parsed.certifications
           \* one job per entry of the profile, in order: company line, title
           \* line, bullets, blank line
           /\ Len(jobs) = Len(entries)
           /\ \A k \in 1..Len(entries) :
                 LET at == experienceAt + JobOffset(jobs, k)
                     bullets == jobs[k].bullets
                 IN /\ lines[at] = Trim(JobCompany(entries[k]).v)
                    /\ Len(lines[at + 1]) >= Len(Trim(JobTitle(entries[k]).v))
                    /\ SubSeq(lines[at + 1], 1, Len(Trim(JobTitle(entries[k]).v)))
                          = Trim(JobTitle(entries[k]).v)
                    /\ \A b \in 1..Len(bullets) :
                          lines[at + 1 + b] = <<"BULLET", " ">> \o bullets[b]
                    /\ lines[at + 2 + Len(bullets)] = <<>>
           \* an EDUCATION line shows degree and institution, not the dates
           /\ \A k \in 1..Len(parsed.education) :
                 LET edu == parsed.education[k]
                     line == lines[educationAt + k]
                 IN /\ Contains(line, ToStr(edu.degree))
                    /\ Contains(line, ToStr(edu.institution))
                    /\ Truthy(edu.dates) => ~Contains(line, ToStr(edu.dates))

\* C16 witness: a profile with phone, location, summary, two jobs, two
\* education entries with dates, skills and certifications is rendered with
\* all five headers.
C16_Witness ==
    /\ Returned("generateATSText")
    /\ Len(FirstWorkList(arg)) = 2
    /\ Get(arg, "education") = Arr(<<EduMIT, EduETH>>)
    /\ Truthy(Get(arg, "phone"))
    /\ Truthy(Get(arg, "location"))
    /\ \A h \in {S_Summary, S_Experience, S_Education, S_Skills, S_Certifications} :
          HeaderIndex(SplitLines(ret.value), h) > 0
    /\ Contains(ret.value, <<"M","S","c"," ","|"," ","E","T","H"," ","|"," ","3",".","9">>)

\* ------------------------------------------------------------------------
\* extractTextFromDOCX
\* ------------------------------------------------------------------------
T_RunOpen == <<"<","w",":","t">>

T_RunClose == <<"<","/","w",":","t",">">>

T_ParaClose == <<"<","/","w",":","p",">">>

\* the strict pattern /<w:t>([^<]*)<\/w:t>/, which knows no attributes
RunMatchNoAttributes(s, i) ==
    LET lt == IndexOfChar(s, i + 5, "<")
    IN IF StartsAt(s, i, T_RunOpen \o <<">">>) /\ lt > 0 /\ StartsAt(s, lt, T_RunClose)
       THEN [found |-> TRUE, text |-> SubSeq(s, i + 5, lt - 1), end |-> lt + Len(T_RunClose)]
       ELSE [found |-> FALSE, text |-> <<>>, end |-> 0]

\* a match of /<w:t[^>]*>([^<]*)<\/w:t>/ that starts at i: group 1 and the
\* position after the match
RunMatch(s, i) ==
    LET gt == IF StartsAt(s, i, T_RunOpen) THEN IndexOfChar(s, i + Len(T_RunOpen), ">") ELSE 0
        lt == IF gt > 0 THEN IndexOfChar(s, gt + 1, "<") ELSE 0
    IN IF lt > 0 /\ StartsAt(s, lt, T_RunClose)
       THEN [found |-> TRUE, text |-> SubSeq(s, gt + 1, lt - 1), end |-> lt + Len(T_RunClose)]
       ELSE [found |-> FALSE, text |-> <<>>, end |-> 0]

\* paraTexts: the non-empty groups of the matches found in para by
\* paraTagRegex.exec, from position i on
RECURSIVE ParaTexts(_, _)
ParaTexts(para, i) ==
    LET at == {k \in i..Len(para) : RunMatch(para, k).found}
    IN IF at = {} THEN <<>>
       ELSE LET m == RunMatch(para, Least(at))
            IN (IF m.text # <<>> THEN <<m.text>> ELSE <<>>) \o ParaTexts(para, m.end)

\* documentXml.split('</w:p>')
RECURSIVE SplitParagraphs(_)
SplitParagraphs(xml) ==
    LET i == IndexOf(xml, 1, T_ParaClose)
    IN IF i = 0 THEN <<xml>>
       ELSE <<SubSeq(xml, 1, i - 1)>> \o SplitParagraphs(From(xml, i + Len(T_ParaClose)))

\* fullText after the loop over the paragraphs
RECURSIVE DocxFullText(_)
DocxFullText(paragraphs) ==
    IF paragraphs = <<>> THEN <<>>
    ELSE LET paraTexts == ParaTexts(Head(paragraphs), 1)
         IN (IF Len(paraTexts) > 0 THEN Flatten(paraTexts) \o <<"\n">> ELSE <<>>)
            \o DocxFullText(Tail(paragraphs))

\* archive.loads: zip.loadAsync resolved (otherwise the catch block returns
\* ''); archive.documentXml: the string of word/document.xml, or undefined
extractTextFromDOCX(archive) ==
    IF ~archive.loads THEN <<>>
    ELSE IF ~Truthy(archive.documentXml) THEN <<>>
    ELSE Trim(DocxFullText(SplitParagraphs(archive.documentXml.v)))

\* ------------------------------------------------------------------------
\* DOCX inputs: document parts written from paragraphs of runs.
\* ------------------------------------------------------------------------
MaxParagraphs == 2

TextRun(text) == [tab |-> FALSE, text |-> text]

TabRun(text) == [tab |-> TRUE, text |-> text]

HasOuterSpace(text) == text # <<>> /\ (IsSpace(text[1]) \/ IsSpace(text[Len(text)]))

\* <w:r>, an optional <w:tab/>, the w:t element with the run's character
\* data, </w:r>
RunXml(run) ==
    <<"<","w",":","r",">">>
    \o (IF run.tab THEN <<"<","w",":","t","a","b","/",">">> ELSE <<>>)
    \o (IF HasOuterSpace(run.text)
        THEN <<"<","w",":","t"," ","x","m","l",":","s","p","a","c","e","=","\"","p","r","e","s","e","r","v","e","\"",">">>
        ELSE <<"<","w",":","t",">">>)
    \o run.text
    \o <<"<","/","w",":","t",">","<","/","w",":","r",">">>

ParagraphXml(runs) ==
    <<"<","w",":","p",">">>
    \o Flatten([i \in 1..Len(runs) |-> RunXml(runs[i])])
    \o T_ParaClose

DocumentXml(paragraphs) ==
    <<"<","w",":","b","o","d","y",">">>
    \o Flatten([i \in 1..Len(paragraphs) |-> ParagraphXml(paragraphs[i])])
    \o <<"<","w",":","s","e","c","t","P","r","/",">","<","/","w",":","b","o","d","y",">">>

\* the runs of one paragraph
ParagraphChoices ==
    {<<>>,
     <<TextRun(<<"H","i">>)>>,
     <<TextRun(<<" ","x">>)>>,
     <<TextRun(<<"y"," ">>)>>,
     <<TextRun(<<>>)>>,
     <<TextRun(<<"H","i">>), TextRun(<<"B","o","b">>)>>,
     <<TextRun(<<>>), TextRun(<<"a">>)>>,
     <<TabRun(<<"c","&","a","m","p",";","d">>)>>}

Documents == UNION {[1..n -> ParagraphChoices] : n \in 0..MaxParagraphs}

DocxInputs ==
    {[loads |-> TRUE, documentXml |-> Str(DocumentXml(d)), paragraphs |-> d] :
        d \in Documents}
    \cup {[loads |-> FALSE, documentXml |-> Undef, paragraphs |-> <<>>],
          [loads |-> TRUE, documentXml |-> Undef, paragraphs |-> <<>>],
          [loads |-> TRUE, documentXml |-> EmptyStr, paragraphs |-> <<>>]}

InitDocx ==
    /\ pc = "ready"
    /\ ret = Pending
    /\ locals = NoLocals
    /\ effects = <<>>
    /\ call = "extractTextFromDOCX"
    /\ arg \in DocxInputs

ExtractTextFromDOCX ==
    call = "extractTextFromDOCX" /\ Finish(Return(extractTextFromDOCX(arg)))

NextDocx == ExtractTextFromDOCX

SpecDocx == InitDocx /\ [][NextDocx]_vars

\* the run texts of one paragraph, joined with nothing between them
ParagraphText(runs) == Flatten([i \in 1..Len(runs) |-> runs[i].text])

DocumentTexts(paragraphs) ==
    [i \in 1..Len(paragraphs) |-> ParagraphText(paragraphs[i])]

\* C7 as stated: for a document part whose paragraphs each hold text runs,
\* the output is the paragraphs' joined run texts with exactly one newline
\* between consecutive paragraphs and none at either end.
C7_DocxAsClaimed ==
    (/\ Returned("extractTextFromDOCX")
     /\ Truthy(arg.documentXml)
     /\ \A i \in 1..Len(arg.paragraphs) : Len(arg.paragraphs[i]) > 0) =>
        ret.value = Join(DocumentTexts(arg.paragraphs), <<"\n">>)

\* C7 amended: the output is the joined run texts of the paragraphs that
\* hold a non-empty run text, one newline between them, with the white
\* space at both ends of the whole removed; two paragraphs of one run each,
\* without white space at their ends, yield run1 \n run2.
C7_DocxTrimmedNonEmptyParagraphs ==
    (Returned("extractTextFromDOCX") /\ Truthy(arg.documentXml)) =>
        LET texts == DocumentTexts(arg.paragraphs)
        IN /\ ret.value = Trim(Join(SelectSeq(texts, LAMBDA t : t # <<>>), <<"\n">>))
           /\ (/\ Len(texts) = 2
               /\ \A i \in 1..2 : texts[i] # <<>> /\ ~HasOuterSpace(texts[i])) =>
                 ret.value = texts[1] \o <<"\n">> \o texts[2]

\* C7 witness: a first paragraph whose run starts with a space, then a
\* paragraph of two runs.
C7_Witness ==
    /\ Returned("extractTextFromDOCX")
    /\ arg.paragraphs = << <<TextRun(<<" ","x">>)>>,
                           <<TextRun(<<"H","i">>), TextRun(<<"B","o","b">>)>> >>
    /\ ret.value = <<"x", "\n", "H", "i", "B", "o", "b">>

\* ------------------------------------------------------------------------
\* extractTextFromPDF and decodePDFString
\* ------------------------------------------------------------------------
StreamMinLength == 50

StreamMinWords == 5

AggressiveBelow == 200

\* the characters \x20 .. \x7E in code order
AsciiPrintable ==
    <<" ","!","\"","#","$","%","&","'","(",")","*","+",",","-",".","/",
      "0","1","2","3","4","5","6","7","8","9",":",";","<","=",">","?",
      "@","A","B","C","D","E","F","G","H","I","J","K","L","M","N","O",
      "P","Q","R","S","T","U","V","W","X","Y","Z","[","\\","]","^","_",
      "GRAVE","a","b","c","d","e","f","g","h","i","j","k","l","m","n","o",
      "p","q","r","s","t","u","v","w","x","y","z","{","|","}","~">>

\* String.fromCharCode
FromCharCode(code) ==
    IF code \in 32..126 THEN AsciiPrintable[code - 31]
    ELSE IF code = 10 THEN "\n"
    ELSE IF code = 13 THEN "\r"
    ELSE IF code = 9 THEN "\t"
    ELSE "BIN"

OctalDigits == {"0", "1", "2", "3", "4", "5", "6", "7"}

DigitValue(c) == CHOOSE n \in 0..9 : AsciiPrintable[17 + n] = c

\* parseInt(digits, 8)
RECURSIVE ParseOctal(_)
ParseOctal(digits) ==
    IF digits = <<>> THEN 0
    ELSE 8 * ParseOctal(SubSeq(digits, 1, Len(digits) - 1)) + DigitValue(digits[Len(digits)])

IsLetter(c) == c \in UpperChars \cup LowerChars

\* the class [^\x20-\x7E\n\r] is the complement of this one
IsPrintable(c) ==
    c \notin {"\t", "BIN", "NBSP", "EN", "BULLET", "SQUARE", "TRI", "PTR"}

\* .replace(/[^\x20-\x7E\n\r]/g, ' ')
BlankUnprintable(s) == [i \in 1..Len(s) |-> IF IsPrintable(s[i]) THEN s[i] ELSE " "]

\* .replace(/\s+/g, ' ')
RECURSIVE CollapseWhitespace(_, _)
CollapseWhitespace(s, i) ==
    LET j == IndexOfSpace(s, i)
    IN IF j = 0 THEN From(s, i)
       ELSE SubSeq(s, i, j - 1) \o <<" ">> \o CollapseWhitespace(s, SkipSpace(s, j))

\* s.split(' ')
RECURSIVE SplitSpaces(_)
SplitSpaces(s) ==
    LET i == IndexOfChar(s, 1, " ")
    IN IF i = 0 THEN <<s>>
       ELSE <<SubSeq(s, 1, i - 1)>> \o SplitSpaces(From(s, i + 1))

\* s.replace(/from/g, to) for a literal from
RECURSIVE ReplaceAll(_, _, _, _)
ReplaceAll(s, i, from, to) ==
    LET j == IndexOf(s, i, from)
    IN IF j = 0 THEN From(s, i)
       ELSE SubSeq(s, i, j - 1) \o to \o ReplaceAll(s, j + Len(from), from, to)

\* the number of octal digits, at most three, that follow position i
OctalRun(s, i) ==
    LET ns == {n \in 1..3 : \A k \in 1..n : i + k <= Len(s) /\ s[i + k] \in OctalDigits}
    IN IF ns = {} THEN 0 ELSE CHOOSE n \in ns : \A m \in ns : m <= n

\* .replace(/\\([0-7]{1,3})/g, (_, oct) => String.fromCharCode(parseInt(oct, 8)))
RECURSIVE ReplaceOctal(_, _)
ReplaceOctal(s, i) ==
    LET at == {k \in i..Len(s) : s[k] = "\\" /\ OctalRun(s, k) > 0}
    IN IF at = {} THEN From(s, i)
       ELSE LET j == Least(at)
            IN SubSeq(s, i, j - 1)
               \o <<FromCharCode(ParseOctal(SubSeq(s, j + 1, j + OctalRun(s, j))))>>
               \o ReplaceOctal(s, j + 1 + OctalRun(s, j))

decodePDFString(str) ==
    LET s1 == ReplaceAll(str, 1, <<"\\", "n">>, <<"\n">>)
        s2 == ReplaceAll(s1, 1, <<"\\", "r">>, <<"\r">>)
        s3 == ReplaceAll(s2, 1, <<"\\", "t">>, <<"\t">>)
        s4 == ReplaceAll(s3, 1, <<"\\", "(">>, <<"(">>)
        s5 == ReplaceAll(s4, 1, <<"\\", ")">>, <<")">>)
        s6 == ReplaceAll(s5, 1, <<"\\", "\\">>, <<"\\">>)
    IN ReplaceOctal(s6, 1)

NoMatch == [found |-> FALSE, text |-> <<>>, end |-> 0]

\* a match of /OPEN\s*([\s\S]*?)\s*CLOSE/ that starts at i: the lazy group
\* ends at the first position from which \s*CLOSE matches
LazyBlockMatch(s, i, open, close) ==
    IF ~StartsAt(s, i, open) THEN NoMatch
    ELSE LET a == SkipSpace(s, i + Len(open))
             ps == {p \in a..(Len(s) + 1) : StartsAt(s, SkipSpace(s, p), close)}
         IN IF ps = {} THEN NoMatch
            ELSE LET p == CHOOSE k \in ps : \A j \in ps : k <= j
                 IN [found |-> TRUE, text |-> SubSeq(s, a, p - 1),
                     end |-> SkipSpace(s, p) + Len(close)]

\* the groups of all matches of /OPEN\s*([\s\S]*?)\s*CLOSE/g from i on
RECURSIVE LazyBlocks(_, _, _, _)
LazyBlocks(s, i, open, close) ==
    LET at == {k \in i..Len(s) : LazyBlockMatch(s, k, open, close).found}
    IN IF at = {} THEN <<>>
       ELSE LET m == LazyBlockMatch(s, Least(at), open, close)
            IN <<m.text>> \o LazyBlocks(s, m.end, open, close)

\* a match of /\(([^)]*)\)\s*Tj/ that starts at i
TjMatch(block, i) ==
    LET close == IF block[i] = "(" THEN IndexOfChar(block, i + 1, ")") ELSE 0
        e == SkipSpace(block, close + 1)
    IN IF close > 0 /\ StartsAt(block, e, <<"T", "j">>)
       THEN [found |-> TRUE, text |-> SubSeq(block, i + 1, close - 1), end |-> e + 2]
       ELSE NoMatch

\* the strings the Tj loop pushes for one block, from i on
RECURSIVE TjStrings(_, _)
TjStrings(block, i) ==
    LET at == {k \in i..Len(block) : TjMatch(block, k).found}
    IN IF at = {} THEN <<>>
       ELSE LET m == TjMatch(block, Least(at))
                decoded == decodePDFString(m.text)
            IN (IF Trim(decoded) # <<>> THEN <<decoded>> ELSE <<>>)
               \o TjStrings(block, m.end)

\* a match of /\[([\s\S]*?)\]\s*TJ/i that starts at i
TjArrayMatch(block, i) ==
    IF block[i] # "[" THEN NoMatch
    ELSE LET ps == {p \in (i + 1)..Len(block) :
                      /\ block[p] = "]"
                      /\ StartsAtCI(block, SkipSpace(block, p + 1), <<"t", "j">>)}
         IN IF ps = {} THEN NoMatch
            ELSE LET p == CHOOSE k \in ps : \A j \in ps : k <= j
                 IN [found |-> TRUE, text |-> SubSeq(block, i + 1, p - 1),
                     end |-> SkipSpace(block, p + 1) + 2]

\* lineText: the decoded, non-empty groups of /\(([^)]*)\)/g in arrayContent
RECURSIVE ArrayStrings(_, _)
ArrayStrings(arrayContent, i) ==
    LET open == IndexOfChar(arrayContent, i, "(")
        close == IF open > 0 THEN IndexOfChar(arrayContent, open + 1, ")") ELSE 0
    IN IF close = 0 THEN <<>>
       ELSE LET decoded == decodePDFString(SubSeq(arrayContent, open + 1, close - 1))
            IN (IF decoded # <<>> THEN <<decoded>> ELSE <<>>)
               \o ArrayStrings(arrayContent, close + 1)

\* the strings the TJ loop pushes for one block, from i on
RECURSIVE TjArrayStrings(_, _)
TjArrayStrings(block, i) ==
    LET at == {k \in i..Len(block) : TjArrayMatch(block, k).found}
    IN IF at = {} THEN <<>>
       ELSE LET m == TjArrayMatch(block, Least(at))
                lineText == ArrayStrings(m.text, 1)
            IN (IF Len(lineText) > 0 THEN <<Flatten(lineText)>> ELSE <<>>)
               \o TjArrayStrings(block, m.end)

\* what the BT ... ET loop pushes
BlockStrings(text) ==
    LET blocks == LazyBlocks(text, 1, <<"B", "T">>, <<"E", "T">>)
    IN Flatten([k \in 1..Len(blocks) |->
                  TjStrings(blocks[k], 1) \o TjArrayStrings(blocks[k], 1)])

\* w.length >= 2 && /[a-zA-Z]/.test(w) && !/^[0-9.]+$/.test(w)
IsStreamWord(w) ==
    /\ Len(w) >= 2
    /\ \E i \in 1..Len(w) : IsLetter(w[i])
    /\ ~(\A i \in 1..Len(w) : w[i] \in Digits \cup {"."})

\* what one stream body pushes
StreamStrings(streamContent) ==
    LET readableText == Trim(CollapseWhitespace(BlankUnprintable(streamContent), 1))
        words == SelectSeq(SplitSpaces(readableText), IsStreamWord)
    IN IF Len(readableText) > StreamMinLength /\ Len(words) > StreamMinWords
       THEN <<Join(words, <<" ">>)>>
       ELSE <<>>

T_Stream == <<"s","t","r","e","a","m">>

T_EndStream == <<"e","n","d","s","t","r","e","a","m">>

\* what the stream ... endstream loop pushes
AllStreamStrings(text) ==
    LET bodies == LazyBlocks(text, 1, T_Stream, T_EndStream)
    IN Flatten([k \in 1..Len(bodies) |-> StreamStrings(bodies[k])])

\* .replace(/([a-z])([A-Z])/g, '$1 $2')
RECURSIVE SplitCamelCase(_, _)
SplitCamelCase(s, i) ==
    LET at == {k \in i..(Len(s) - 1) : s[k] \in LowerChars /\ s[k + 1] \in UpperChars}
    IN IF at = {} THEN From(s, i)
       ELSE LET j == Least(at)
            IN SubSeq(s, i, j) \o <<" ", s[j + 1]>> \o SplitCamelCase(s, j + 2)

\* a filter that keeps only words made of letters: /^[a-zA-Z]{3,}$/
IsMeaningfulWordAnchored(word) ==
    /\ Len(word) >= 3
    /\ \A i \in 1..Len(word) : IsLetter(word[i])

\* word.length >= 3 && /[a-zA-Z]{2,}/.test(word)
IsMeaningfulWord(word) ==
    /\ Len(word) >= 3
    /\ \E i \in 1..(Len(word) - 1) : IsLetter(word[i]) /\ IsLetter(word[i + 1])

\* meaningfulParts of the aggressive extraction
MeaningfulParts(text) ==
    LET asciiText == Trim(CollapseWhitespace(BlankUnprintable(text), 1))
    IN Join(SelectSeq(SplitSpaces(asciiText), IsMeaningfulWord), <<" ">>)

\* text is the latin1 decoding of the bytes; nothing in the try block throws
extractTextFromPDF(text) ==
    LET extractedText == BlockStrings(text) \o AllStreamStrings(text)
        result == Trim(SplitCamelCase(
                     CollapseWhitespace(Join(extractedText, <<" ">>), 1), 1))
    IN IF Len(result) < AggressiveBelow /\ Len(MeaningfulParts(text)) > Len(result)
       THEN MeaningfulParts(text)
       ELSE result

\* ------------------------------------------------------------------------
\* PDF inputs: byte sequences that contain the block BT (Hello) Tj ET.
\* ------------------------------------------------------------------------
MaxPdfFrags == 2

HelloBlock == <<"B","T"," ","(","H","e","l","l","o",")"," ","T","j"," ","E","T">>

Hello == <<"H","e","l","l","o">>

\* what may precede and follow the block
PdfFrags ==
    {<<"B","T"," ">>,
     <<" ","E","T">>,
     <<"(">>,
     <<")"," ","T","j"," ">>,
     <<"[","(","l","o">>,
     <<")","]"," ","T","J"," ">>,
     <<"\\">>,
     <<"s","t","r","e","a","m"," ">>,
     <<" ","e","n","d","s","t","r","e","a","m">>,
     <<"l","o","w">>,
     <<"BIN">>, <<"\n">>}

\* a text object of more than AggressiveBelow characters
LongBlock ==
    <<"B","T"," ","(">> \o Flatten([i \in 1..26 |-> <<"L","o","r","e","m"," ","i","p">>]) \o <<")"," ","T","j"," ","E","T"," ">>

\* a stream body of more than StreamMinLength characters and StreamMinWords words
WordyStream ==
    <<"s","t","r","e","a","m"," ">> \o Flatten([i \in 1..8 |-> <<"w","o","r","d"," ","1","2"," ">>]) \o <<"e","n","d","s","t","r","e","a","m"," ">>

PdfSurroundings ==
    {<<Flatten(SubSeq(f, 1, k)), Flatten(SubSeq(f, k + 1, Len(f)))>> :
        <<f, k>> \in UNION {[1..n -> PdfFrags] \X (0..n) : n \in 0..MaxPdfFrags}}
    \cup {<<LongBlock, <<>> >>, << <<>>, LongBlock>>, <<WordyStream, <<>> >>,
          <<WordyStream \o <<"s","t","r","e","a","m"," ">>, <<" ","a"," ","b","b"," ","c","c","c"," ","d","d","d","d"," ","e","e","e","e","e"," ","f","f","f","f","f","f"," ","g","g","g","g","g","g","g"," ","h","h","h","h","h","h","h","h"," ","i","i","i","i","i","i","i","i","i"," ","e","n","d","s","t","r","e","a","m">>>>,
          <<LongBlock \o <<"B","T"," ","(">>, <<>> >>}

PdfInputs == {x[1] \o HelloBlock \o x[2] : x \in PdfSurroundings}

InitPdf ==
    /\ pc = "ready"
    /\ ret = Pending
    /\ locals = NoLocals
    /\ effects = <<>>
    /\ call = "extractTextFromPDF"
    /\ arg \in PdfInputs

ExtractTextFromPDF ==
    call = "extractTextFromPDF" /\ Finish(Return(extractTextFromPDF(arg)))

NextPdf == ExtractTextFromPDF

SpecPdf == InitPdf /\ [][NextPdf]_vars

\* C8: for every byte sequence that contains the block BT (Hello) Tj ET,
\* whatever precedes or follows it, the text extractTextFromPDF returns
\* contains "Hello".
C8_PdfKeepsHello ==
    Returned("extractTextFromPDF") => Contains(ret.value, Hello)

\* C8 witness: the block follows an open text object with an unbalanced
\* parenthesis, the block scan has decoded "BT (Hello", and the aggressive
\* extraction has replaced that result by the longer "(BT (Hello)".
C8_Witness ==
    /\ Returned("extractTextFromPDF")
    /\ arg = <<"B","T"," ","(">> \o HelloBlock
    /\ BlockStrings(arg) = << <<"B","T"," ","(">> \o Hello >>
    /\ ret.value = MeaningfulParts(arg)
    /\ ret.value # Flatten(BlockStrings(arg))
    /\ Contains(ret.value, Hello)

\* ------------------------------------------------------------------------
\* getWorkExperienceFocusedText
\* ------------------------------------------------------------------------
FocusFallbackLength == 20000

FocusMaxLength == 25000

EndSearchOffset == 20

startMarkers ==
    << <<"W","O","R","K"," ","E","X","P","E","R","I","E","N","C","E">>,
      <<"P","R","O","F","E","S","S","I","O","N","A","L"," ","E","X","P","E","R","I","E","N","C","E">>,
      <<"E","X","P","E","R","I","E","N","C","E">>,
      <<"E","M","P","L","O","Y","M","E","N","T"," ","H","I","S","T","O","R","Y">>>>

endMarkers ==
    << <<"E","D","U","C","A","T","I","O","N">>,
      <<"C","E","R","T","I","F","I","C","A","T","I","O","N","S">>,
      <<"S","K","I","L","L","S">>,
      <<"P","R","O","J","E","C","T","S">>,
      <<"L","A","N","G","U","A","G","E","S">>,
      <<"A","C","H","I","E","V","E","M","E","N","T","S">>,
      <<"I","N","T","E","R","E","S","T","S">>>>

\* String.prototype.toUpperCase: a sharp s ("SZ") becomes the two letters SS,
\* so the result can be longer than s
ToUpperCase(s) ==
    LET sharp == {k \in 1..Len(s) : s[k] = "SZ"}
        origin(j) == Least({i \in 1..Len(s) :
                              i + Cardinality({k \in sharp : k <= i}) >= j})
    IN <<>> \o (IF sharp = {} THEN [i \in 1..Len(s) |-> ToUpper(s[i])]
                ELSE [j \in 1..(Len(s) + Cardinality(sharp)) |->
                        IF s[origin(j)] = "SZ" THEN "S" ELSE ToUpper(s[origin(j)])])

\* String.prototype.toLowerCase
ToLowerCase(s) == [i \in 1..Len(s) |-> ToLower(s[i])]

\* s.slice(0, n) and s.substring(0, n)
Prefix(s, n) == SubSeq(s, 1, IF n < Len(s) THEN n ELSE Len(s))

\* s.slice(from - 1, to - 1): the characters at the (1-based) positions
\* from .. to - 1 that s has
Slice(s, from, to) == SubSeq(s, from, IF to - 1 < Len(s) THEN to - 1 ELSE Len(s))

\* the least position at which any start marker occurs; 0 stands for -1
FocusStartEarliest(upper) ==
    LET hits == {IndexOf(upper, 1, startMarkers[k]) : k \in 1..Len(startMarkers)} \ {0}
    IN IF hits = {} THEN 0 ELSE Least(hits)

\* start after the first loop: the position of the first marker, in the
\* order of startMarkers, that occurs in upper; 0 stands for -1
FocusStart(upper) ==
    LET found == {k \in 1..Len(startMarkers) : IndexOf(upper, 1, startMarkers[k]) > 0}
    IN IF found = {} THEN 0 ELSE IndexOf(upper, 1, startMarkers[Least(found)])

\* end after the second loop: the least position of an end marker found from
\* start + 20 on, or the position after the last character
FocusEnd(upper, start) ==
    LET hits == {IndexOf(upper, start + EndSearchOffset, endMarkers[k]) :
                    k \in 1..Len(endMarkers)} \ {0}
    IN IF hits = {} THEN Len(upper) + 1 ELSE Least(hits)

\* fullText is String(fullText ?? '')
getWorkExperienceFocusedText(fullText) ==
    LET upper == ToUpperCase(fullText)
        start == FocusStart(upper)
    IN IF start = 0 THEN Prefix(fullText, FocusFallbackLength)
       ELSE Prefix(Slice(fullText, start, FocusEnd(upper, start)), FocusMaxLength)

\* ------------------------------------------------------------------------
\* getWorkExperienceFocusedText on texts built from headers, terminators
\* and filler, and on texts longer than its two length limits.
\* ------------------------------------------------------------------------
MaxFocusFrags == 3

FocusFrags ==
    {<<"E","x","p","e","r","i","e","n","c","e"," ">>,
     <<"W","o","r","k"," ","E","x","p","e","r","i","e","n","c","e"," ">>,
     <<"p","r","o","f","e","s","s","i","o","n","a","l"," ","e","x","p","e","r","i","e","n","c","e"," ">>,
     <<"E","m","p","l","o","y","m","e","n","t"," ","H","i","s","t","o","r","y"," ">>,
     <<"S","k","i","l","l","s",":"," ">>,
     <<"E","d","u","c","a","t","i","o","n">>,
     <<"S","e","n","i","o","r"," ","d","e","v","e","l","o","p","e","r",","," ","A","c","m","e"," ","C","o","r","p","."," ">>,
     <<"SZ">>,
     <<"x">>}

\* n characters of filler
Filler(n) == <<>> \o [i \in 1..n |-> "x"]

FocusLongInputs ==
    {Filler(FocusFallbackLength + 1),
     Filler(FocusFallbackLength + 1) \o <<" ","W","o","r","k"," ","E","x","p","e","r","i","e","n","c","e">>,
     <<"E","x","p","e","r","i","e","n","c","e"," ">> \o Filler(FocusMaxLength + 1),
     <<"S","k","i","l","l","s"," ","W","o","r","k"," ","E","x","p","e","r","i","e","n","c","e"," ">> \o Filler(FocusMaxLength) \o <<"E","d","u","c","a","t","i","o","n">>,
     Filler(EndSearchOffset) \o <<" ","e","x","p","e","r","i","e","n","c","e"," ">> \o Filler(FocusMaxLength - 1) \o <<"P","r","o","j","e","c","t","s"," ","x">>}

FocusInputs == FragStrings(FocusFrags, MaxFocusFrags) \cup FocusLongInputs

InitFocus ==
    /\ pc = "ready"
    /\ ret = Pending
    /\ locals = NoLocals
    /\ effects = <<>>
    /\ call = "getWorkExperienceFocusedText"
    /\ arg \in FocusInputs

GetWorkExperienceFocusedText ==
    call = "getWorkExperienceFocusedText"
        /\ Finish(Return(getWorkExperienceFocusedText(arg)))

NextFocus == GetWorkExperienceFocusedText

SpecFocus == InitFocus /\ [][NextFocus]_vars

\* m occurs in text at position i, ignoring case
MatchesIgnoringCase(text, i, m) ==
    /\ i >= 1
    /\ i + Len(m) - 1 <= Len(text)
    /\ \A k \in 1..Len(m) : ToUpper(text[i + k - 1]) = m[k]

\* the positions of text at which one of the markers occurs, ignoring case
MarkerPositions(text, markers) ==
    {i \in 1..Len(text) :
        \E k \in 1..Len(markers) : MatchesIgnoringCase(text, i, markers[k])}

\* r is a contiguous substring of text
IsSubstring(r, text) == r = <<>> \/ Contains(text, r)

\* C15 as claimed: with a start header in the text, the result starts at the
\* earliest position at which any start header occurs and ends just before
\* the first terminator header after that start, or at the end of the text,
\* truncated to 25000 characters; without a start header it is the first
\* 20000 characters; in every case it is a contiguous substring of the text.
C15_FocusAsClaimed ==
    Returned("getWorkExperienceFocusedText") =>
        LET starts == MarkerPositions(arg, startMarkers)
            start == Least(starts)
            ends == {i \in MarkerPositions(arg, endMarkers) : i > start}
            end == IF ends = {} THEN Len(arg) + 1 ELSE Least(ends)
        IN /\ IsSubstring(ret.value, arg)
           /\ IF starts = {} THEN ret.value = Prefix(arg, FocusFallbackLength)
              ELSE ret.value = Prefix(SubSeq(arg, start, end - 1), FocusMaxLength)

\* C15 amended: positions are those of the upper-cased text. With a start
\* header in it, the result starts at the first occurrence of the first
\* header, in the order WORK EXPERIENCE, PROFESSIONAL EXPERIENCE, EXPERIENCE,
\* EMPLOYMENT HISTORY, that occurs at all, and ends just before the earliest
\* terminator header that begins 20 or more characters after that start, or
\* at the end of the text, truncated to 25000 characters; without a start
\* header it is the first 20000 characters; in every case it is a contiguous
\* substring of the text.
C15_FocusByPriority ==
    Returned("getWorkExperienceFocusedText") =>
        LET upper == ToUpperCase(arg)
            present == {k \in 1..Len(startMarkers) : Contains(upper, startMarkers[k])}
            header == startMarkers[Least(present)]
            start == Least({i \in 1..Len(upper) : StartsAt(upper, i, header)})
            ends == {i \in (start + EndSearchOffset)..Len(upper) :
                        \E k \in 1..Len(endMarkers) : StartsAt(upper, i, endMarkers[k])}
            end == IF ends = {} THEN Len(upper) + 1 ELSE Least(ends)
            section == [i \in 1..(IF end - 1 < Len(arg) THEN end - start
                                  ELSE IF Len(arg) < start THEN 0
                                  ELSE Len(arg) - start + 1) |-> arg[start + i - 1]]
                       \o <<>>
        IN /\ IsSubstring(ret.value, arg)
           /\ Len(ret.value) <= FocusMaxLength
           /\ IF present = {} THEN ret.value = Prefix(arg, FocusFallbackLength)
              ELSE /\ ret.value = Prefix(section, FocusMaxLength)
                   /\ (Len(upper) = Len(arg) /\ ret.value # <<>>) =>
                         MatchesIgnoringCase(arg, start, header)

\* C15 witness: EXPERIENCE occurs before WORK EXPERIENCE and SKILLS begins
\* less than 20 characters after it; the result starts at WORK EXPERIENCE
\* and runs to the end of the text.
C15_Witness ==
    /\ Returned("getWorkExperienceFocusedText")
    /\ arg = <<"E","x","p","e","r","i","e","n","c","e"," ","W","o","r","k"," ","E","x","p","e","r","i","e","n","c","e"," ","S","k","i","l","l","s",":"," ">>
    /\ ret.value = <<"W","o","r","k"," ","E","x","p","e","r","i","e","n","c","e"," ","S","k","i","l","l","s",":"," ">>

\* ------------------------------------------------------------------------
\* The serve handler: the synchronous computations between its awaits.
\* ------------------------------------------------------------------------
ReadableMinLength == 100

FocusedMinLength == 200

ExtractedMinLength == 200

SnippetLength == 500

True == [t |-> "boolean", v |-> <<"t","r","u","e">>]

False == [t |-> "boolean", v |-> <<"f","a","l","s","e">>]

\* a Blob: the downloaded file, as its latin1 text and as the archive JSZip
\* reads from its bytes
Blob(file) == [t |-> "blob", v |-> file]

\* cvFilePath.split('.').pop()?.toLowerCase() || 'pdf'
FileExtension(cvFilePath) ==
    LET dots == {k \in 1..Len(cvFilePath) : cvFilePath[k] = "."}
        last == IF dots = {} THEN cvFilePath
                ELSE From(cvFilePath, (CHOOSE k \in dots : \A j \in dots : j <= k) + 1)
    IN IF last = <<>> THEN <<"p","d","f">> ELSE ToLowerCase(last)

\* rawText.replace(/[^\x20-\x7E\n\r]/g, ' ').replace(/\s+/g, ' ').trim()
ExtractTextFromDOC(rawText) == Trim(CollapseWhitespace(BlankUnprintable(rawText), 1))

\* the class [a-zA-Z0-9\s.,;:!?@#$%&*()\-]
IsReadableChar(c) ==
    \/ c \in UpperChars \cup LowerChars \cup Digits
    \/ IsSpace(c)
    \/ c \in {".", ",", ";", ":", "!", "?", "@", "#", "$", "%", "&", "*", "(", ")", "-"}

CommonWords ==
    {<<"e","x","p","e","r","i","e","n","c","e">>, <<"e","d","u","c","a","t","i","o","n">>, <<"s","k","i","l","l","s">>, <<"w","o","r","k">>, <<"c","o","m","p","a","n","y">>,
     <<"u","n","i","v","e","r","s","i","t","y">>, <<"d","e","g","r","e","e">>, <<"m","a","n","a","g","e","r">>, <<"d","e","v","e","l","o","p","e","r">>, <<"e","n","g","i","n","e","e","r">>,
     <<"a","n","a","l","y","s","t">>}

\* /\b(experience|education|...|analyst)\b/i.test(text)
HasCommonWords(text) ==
    \E i \in 1..Len(text) : \E w \in CommonWords :
        /\ StartsAtCI(text, i, w)
        /\ WordBoundary(text, i)
        /\ WordBoundary(text, i + Len(w))

\* the ratio and the common words alone, whatever the length
isTextReadableAnyLength(text) ==
    /\ text # <<>>
    /\ 10 * Len(SelectSeq(text, IsReadableChar)) > 4 * Len(text)
    /\ HasCommonWords(text)

isTextReadable(text) ==
    IF text = <<>> \/ Len(text) < ReadableMinLength THEN FALSE
    ELSE LET readable == SelectSeq(text, IsReadableChar)
         IN 10 * Len(readable) > 4 * Len(text) /\ HasCommonWords(text)

\* focusedWorkExpText
FocusedWorkExpText(textContent) ==
    IF textContent # <<>> /\ isTextReadable(textContent)
    THEN getWorkExperienceFocusedText(textContent)
    ELSE <<>>

usedInputType(textContent) ==
    IF /\ FocusedWorkExpText(textContent) # <<>>
       /\ Len(Trim(FocusedWorkExpText(textContent))) > FocusedMinLength
    THEN "focused_text"
    ELSE IF /\ textContent # <<>>
            /\ isTextReadable(textContent)
            /\ Len(Trim(textContent)) > ExtractedMinLength
         THEN "extracted_text"
         ELSE "base64_snippet"

S_NoTextExtracted == <<"[","N","o"," ","t","e","x","t"," ","e","x","t","r","a","c","t","e","d"," ","-"," ","P","D","F"," ","m","a","y"," ","b","e"," ","i","m","a","g","e","-","b","a","s","e","d","]">>

S_ExtractionFailed ==
    <<"[","T","e","x","t"," ","e","x","t","r","a","c","t","i","o","n"," ","f","a","i","l","e","d"," ","-"," ","P","D","F"," ","a","p","p","e","a","r","s"," ","t","o"," ","b","e"," ","i","m","a","g","e","-","b","a","s","e","d","."," ","P","l","e","a","s","e"," ","u","p","l","o","a","d"," ","a"," ","D","O","C","X"," ","f","i","l","e"," ","o","r"," ","a"," ","P","D","F"," ","w","i","t","h"," ","s","e","l","e","c","t","a","b","l","e"," ","t","e","x","t",".","]">>

createReadableSnippet(text) ==
    IF text = <<>> THEN S_NoTextExtracted
    ELSE IF ~isTextReadable(text) THEN S_ExtractionFailed
    ELSE Prefix(text, SnippetLength)

debugPayload(debug, textContent, fileExtension) ==
    IF Truthy(debug)
    THEN Obj([extractedTextLength |-> Len(textContent),
              extractedTextSnippet |-> createReadableSnippet(textContent),
              fileExtension |-> fileExtension,
              usedInputType |-> usedInputType(textContent)])
    ELSE Null

\* the provider chosen from the profile row and the environment: the locals
\* kimiKey, openaiKey and, when a branch assigns them, apiUrl and model
K_Kimi == <<"k","i","m","i">>

K_OpenAI == <<"o","p","e","n","a","i">>

KimiKey(profileData) == Get(profileData, "kimi_api_key")

OpenAIKey(profileData, envKey) == Or(Get(profileData, "openai_api_key"), envKey)

PreferKimi(profileData) ==
    /\ Get(profileData, "preferred_ai_provider") = Str(K_Kimi)
    /\ Truthy(Get(profileData, "kimi_enabled"))
    /\ Truthy(KimiKey(profileData))

Provider(profileData, envKey) ==
    IF PreferKimi(profileData) /\ Truthy(KimiKey(profileData))
    THEN [apiKey |-> KimiKey(profileData),
          apiUrl |-> "https://api.moonshot.ai/v1/chat/completions",
          model |-> "kimi-k2-0711-preview"]
    ELSE IF Truthy(OpenAIKey(profileData, envKey))
    THEN [apiKey |-> OpenAIKey(profileData, envKey),
          apiUrl |-> "https://api.openai.com/v1/chat/completions",
          model |-> "gpt-4o-mini"]
    ELSE [apiKey |-> Undef, apiUrl |-> "", model |-> ""]

\* ------------------------------------------------------------------------
\* The reply of the AI provider.
\* ------------------------------------------------------------------------
T_Fence == <<"GRAVE","GRAVE","GRAVE">>

T_FenceJson == <<"GRAVE","GRAVE","GRAVE","j","s","o","n">>

\* s.replace(/^OPEN\n?/, '') for a string that starts with OPEN
StripFenceOpen(s, open) ==
    LET e == IF Len(s) > Len(open) /\ s[Len(open) + 1] = "\n"
             THEN Len(open) + 2 ELSE Len(open) + 1
    IN From(s, e)

\* s.replace(/\n?```$/, '')
StripFenceClose(s) ==
    IF Len(s) >= 3 /\ StartsAt(s, Len(s) - 2, T_Fence)
    THEN IF Len(s) >= 4 /\ s[Len(s) - 3] = "\n"
         THEN SubSeq(s, 1, Len(s) - 4)
         ELSE SubSeq(s, 1, Len(s) - 3)
    ELSE s

\* cleanedText of the first pass: if ... else if
CleanedText(extractedText) ==
    LET cleanedText == Trim(extractedText)
    IN IF StartsAt(cleanedText, 1, T_FenceJson)
       THEN StripFenceClose(StripFenceOpen(cleanedText, T_FenceJson))
       ELSE IF StartsAt(cleanedText, 1, T_Fence)
       THEN StripFenceClose(StripFenceOpen(cleanedText, T_Fence))
       ELSE cleanedText

\* cleaned of the focused pass: two ifs in a row
Cleaned(focusedText) ==
    LET c0 == Trim(focusedText)
        c1 == IF StartsAt(c0, 1, T_FenceJson)
              THEN StripFenceClose(StripFenceOpen(c0, T_FenceJson)) ELSE c0
    IN IF StartsAt(c1, 1, T_Fence)
       THEN StripFenceClose(StripFenceOpen(c1, T_Fence)) ELSE c1

J_Full == <<"{","\"","f","i","r","s","t","_","n","a","m","e","\"",":","\"","A","n","n","\"",",","\"","w","o","r","k","_","e","x","p","e","r","i","e","n","c","e","\"",":","[","{","\"","c","o","m","p","a","n","y","\"",":","\"","A","c","m","e","\"","}","]","}">>

J_EmptyList == <<"{","\"","f","i","r","s","t","_","n","a","m","e","\"",":","\"","A","n","n","\"",",","\"","w","o","r","k","_","e","x","p","e","r","i","e","n","c","e","\"",":","[","]","}">>

J_NoList == <<"{","\"","f","i","r","s","t","_","n","a","m","e","\"",":","\"","A","n","n","\"","}">>

J_Null == <<"n","u","l","l">>

J_Focused == <<"{","\"","w","o","r","k","_","e","x","p","e","r","i","e","n","c","e","\"",":","[","{","\"","c","o","m","p","a","n","y","\"",":","\"","I","n","i","t","e","c","h","\"","}","]","}">>

J_Invalid == <<"S","o","r","r","y",","," ","I"," ","c","a","n","n","o","t"," ","r","e","a","d"," ","t","h","i","s"," ","C","V",".">>

V_Ann == Str(<<"A","n","n">>)

V_JobAcme == Obj([company |-> Str(<<"A","c","m","e">>)])

V_JobInitech == Obj([company |-> Str(<<"I","n","i","t","e","c","h">>)])

E_SyntaxError == <<"S","y","n","t","a","x","E","r","r","o","r">>

E_TypeError == <<"T","y","p","e","E","r","r","o","r">>

E_NetworkError == <<"N","e","t","w","o","r","k","E","r","r","o","r">>

\* JSON.parse on the texts a reply can carry: the value of each JSON text,
\* a SyntaxError for a text that is not JSON
JSONParse(text) ==
    CASE text = J_Full ->
           Return(Obj([first_name |-> V_Ann, work_experience |-> Arr(<<V_JobAcme>>)]))
      [] text = J_EmptyList ->
           Return(Obj([first_name |-> V_Ann, work_experience |-> Arr(<<>>)]))
      [] text = J_NoList -> Return(Obj([first_name |-> V_Ann]))
      [] text = J_Null -> Return(Null)
      [] text = J_Focused -> Return(Obj([work_experience |-> Arr(<<V_JobInitech>>)]))
      [] OTHER -> Throw(E_SyntaxError)

\* data.choices?.[0]?.message?.content || ''
MessageContent(data) ==
    LET choices == Get(data, "choices")
        first == IF IsArray(choices) /\ Len(choices.v) > 0 THEN choices.v[1] ELSE Undef
    IN Or(Get(Get(first, "message"), "content"), EmptyStr)

\* a first pass that hands on the reply text when it is not JSON
ParsedDataKeepsRawText(extractionData) ==
    IF ~HasProps(extractionData) THEN Throw(E_TypeError)
    ELSE LET extractedText == MessageContent(extractionData)
         IN IF extractedText.t # "string" THEN Throw(E_TypeError)
            ELSE IF JSONParse(CleanedText(extractedText.v)).threw
            THEN Return(extractedText)
            ELSE JSONParse(CleanedText(extractedText.v))

\* the first pass from extractionData to parsedData: a TypeError of
\* extractionData.choices, of extractedText.trim() and then of
\* extractedText.substring() in the inner catch block; the inner catch
\* block's error for a reply that is not JSON
ParsedData(extractionData) ==
    IF ~HasProps(extractionData) THEN Throw(E_TypeError)
    ELSE LET extractedText == MessageContent(extractionData)
         IN IF extractedText.t # "string" THEN Throw(E_TypeError)
            ELSE IF JSONParse(CleanedText(extractedText.v)).threw
            THEN Throw(<<"F","a","i","l","e","d"," ","t","o"," ","p","a","r","s","e"," ","e","x","t","r","a","c","t","e","d"," ","C","V"," ","d","a","t","a">>)
            ELSE JSONParse(CleanedText(extractedText.v))

\* a check of Array.isArray alone
NeedsFocusedPassNotArrayOnly(parsedData) ==
    ~IsArray(Get(parsedData, "work_experience"))

\* !Array.isArray(parsedData?.work_experience) || parsedData.work_experience.length === 0
NeedsFocusedPass(parsedData) ==
    LET list == Get(parsedData, "work_experience")
    IN ~IsArray(list) \/ Len(list.v) = 0

\* o.k = x on an object
SetProp(o, k, x) ==
    Obj([f \in DOMAIN o.v \cup {k} |-> IF f = k THEN x ELSE o.v[f]])

\* parsedData after the try block of the focused pass: the assignment to
\* parsedData.work_experience throws on null, and the catch block only logs
MergeFocused(parsedData, focusedJson) ==
    LET focusedText == MessageContent(focusedJson)
        parsed == JSONParse(Cleaned(ToStr(focusedText)))
        list == Get(parsed.value, "work_experience")
    IN IF ~parsed.threw /\ IsArray(list) /\ Len(list.v) > 0 /\ parsedData.t = "object"
       THEN SetProp(parsedData, "work_experience", list)
       ELSE parsedData

\* ------------------------------------------------------------------------
\* What the handler meets: requests, identities, stored files, profile rows
\* and provider replies.
\* ------------------------------------------------------------------------
\* a readable CV text with a WORK EXPERIENCE header
CvText ==
    <<"W","o","r","k"," ","E","x","p","e","r","i","e","n","c","e"," ">>
    \o Flatten([i \in 1..8 |-> <<"S","e","n","i","o","r"," ","d","e","v","e","l","o","p","e","r"," ","a","t"," ","A","c","m","e"," ","C","o","r","p","."," ">>])

\* a readable text whose experience section ends after 23 characters
CvSectionText ==
    <<"E","x","p","e","r","i","e","n","c","e"," ","a","t"," ","A","c","m","e"," ","C","o","."," ","E","d","u","c","a","t","i","o","n",":"," ">>
    \o Flatten([i \in 1..10 |-> <<"U","n","i","v","e","r","s","i","t","y"," ","d","e","g","r","e","e",","," ">>])

\* a readable text of 108 characters
MidText == <<"S","k","i","l","l","s",":"," ">> \o Flatten([i \in 1..5 |-> <<"d","e","v","e","l","o","p","e","r"," ","e","n","g","i","n","e","e","r",","," ">>])

\* a long text that is mostly punctuation outside the readable class
NoisyText == Flatten([i \in 1..30 |-> <<"^","~","{","}","|">>]) \o <<" ","e","x","p","e","r","i","e","n","c","e"," ">>

\* a text of letters and common words that is shorter than 100 characters
ShortText == <<"W","o","r","k"," ","e","x","p","e","r","i","e","n","c","e",":"," ","d","e","v","e","l","o","p","e","r"," ","a","t"," ","A","c","m","e">>

NotAnArchive == [loads |-> FALSE, documentXml |-> Undef, paragraphs |-> <<>>]

File(text) == [text |-> text, archive |-> NotAnArchive]

\* a DOCX file: its bytes are no text, its archive holds the document part
DocxFile(paragraphs) ==
    [text |-> <<"P","K","BIN","BIN">>,
     archive |-> [loads |-> TRUE, documentXml |-> Str(DocumentXml(paragraphs)),
                  paragraphs |-> paragraphs]]

Files ==
    {File(HelloBlock),
     File(<<"B","T"," ","(">> \o CvText \o <<")"," ","T","j"," ","E","T">>),
     File(CvSectionText),
     File(MidText),
     File(NoisyText),
     File(ShortText),
     File(Flatten([i \in 1..40 |-> <<"BIN","BIN","BIN">>])),
     DocxFile(<< <<TextRun(CvText)>>, <<TextRun(<<"S","k","i","l","l","s",":"," ","T","L","A","+">>)>> >>),
     DocxFile(<< <<TextRun(<<"H","i">>)>> >>)}

User == Obj([id |-> Str(<<"u","1">>)])

AuthError == Obj([message |-> Str(<<"i","n","v","a","l","i","d"," ","J","W","T">>)])

\* what auth.getUser() resolves to: data.user and error
GetUserOutcomes ==
    {[user |-> User, error |-> Null],
     [user |-> Null, error |-> AuthError],
     [user |-> Null, error |-> Null],
     [user |-> User, error |-> AuthError]}

\* what storage.from('cvs').download() resolves to: data and error
DownloadOutcomes ==
    {[data |-> Blob(f), error |-> Null] : f \in Files}
    \cup {[data |-> Null, error |-> Obj([message |-> Str(<<"O","b","j","e","c","t"," ","n","o","t"," ","f","o","u","n","d">>)])],
          [data |-> Null, error |-> Obj([name |-> Str(<<"S","t","o","r","a","g","e","E","r","r","o","r">>)])],
          [data |-> Null, error |-> Null],
          [data |-> Blob(File(HelloBlock)),
           error |-> Obj([message |-> Str(<<"O","b","j","e","c","t"," ","n","o","t"," ","f","o","u","n","d">>)])]}

\* the body of the request: whether it is JSON, and its value
JsonBody(value) == [parses |-> TRUE, value |-> value]

NotJson == [parses |-> FALSE, value |-> Undef]

RequestBodies ==
    {NotJson,
     JsonBody(Null),
     JsonBody(Obj([debug |-> True])),
     JsonBody(Obj([cvFilePath |-> EmptyStr])),
     JsonBody(Obj([cvFilePath |-> Num(<<"5">>)])),
     JsonBody(Obj([cvFilePath |-> Str(<<"u","1","/","c","v",".","p","d","f">>)])),
     JsonBody(Obj([cvFilePath |-> Str(<<"u","1","/","C","V",".","P","D","F">>), debug |-> True])),
     JsonBody(Obj([cvFilePath |-> Str(<<"u","1","/","c","v",".","d","o","c","x">>), debug |-> True])),
     JsonBody(Obj([cvFilePath |-> Str(<<"u","1","/","c","v",".","d","o","c">>)])),
     JsonBody(Obj([cvFilePath |-> Str(<<"u","1","/","c","v",".">>)])),
     JsonBody(Obj([cvFilePath |-> Str(<<"c","v">>), debug |-> True]))}

\* req.method, req.headers.get('Authorization') and the body
Requests ==
    [method : {"OPTIONS", "POST"},
     authorization : {Null, EmptyStr, Str(<<"B","e","a","r","e","r"," ","t">>)},
     body : RequestBodies]

\* the row of the profiles table, null when the query finds none
ProfileRows ==
    {Null}
    \cup {Obj([kimi_api_key |-> k, openai_api_key |-> o,
               preferred_ai_provider |-> p, kimi_enabled |-> e,
               openai_enabled |-> True]) :
            k \in {Null, Str(<<"k","k">>)}, o \in {Null, Str(<<"o","k">>)},
            p \in {Null, Str(K_Kimi), Str(K_OpenAI)}, e \in {True, False}}

\* Deno.env.get('OPENAI_API_KEY')
EnvKeys == {Undef, Str(<<"e","k">>)}

\* fetch() rejects, or resolves to a response with ok true or false
FetchOutcomes == {"rejects", "ok", "not ok"}

\* a chat completion with one choice
Reply(content) ==
    Obj([choices |-> Arr(<<Obj([message |-> Obj([content |-> content])])>>)])

Fenced(open, text) == open \o <<"\n">> \o text \o <<"\n">> \o T_Fence

ReplyTexts ==
    {J_Full, J_EmptyList, J_NoList, J_Null, J_Focused, J_Invalid,
     Fenced(T_FenceJson, J_EmptyList), Fenced(T_Fence, J_Focused),
     T_FenceJson \o T_Fence \o J_Full}

\* response.json(): whether the body is JSON, and its value
ResponseBodies ==
    {NotJson, JsonBody(Null), JsonBody(Obj([id |-> Str(<<"x">>)])),
     JsonBody(Reply(Arr(<<>>)))}
    \cup {JsonBody(Reply(Str(t))) : t \in ReplyTexts}

\* ------------------------------------------------------------------------
\* The serve handler: one action per step between two awaits.
\* ------------------------------------------------------------------------
\* new Response(null, { headers: corsHeaders })
CorsResponse == [status |-> 200, body |-> Null]

\* the response of the catch block
ErrorResponse(message) ==
    [status |-> 400, body |-> [success |-> FALSE, error |-> message]]

\* the response at the end of the try block
SuccessResponse(parsedData, debug) ==
    [status |-> 200, body |-> [success |-> TRUE, data |-> parsedData, debug |-> debug]]

\* the handler returns response
Respond(response, newLocals) ==
    /\ pc' = "done"
    /\ ret' = Return(response)
    /\ locals' = newLocals
    /\ UNCHANGED <<call, arg, effects>>

\* an exception with this message reaches the catch block
Catch(message, newLocals) == Respond(ErrorResponse(message), newLocals)

\* the handler starts operation and awaits it at position
Await(position, newLocals, operation) ==
    /\ pc' = position
    /\ locals' = newLocals
    /\ effects' = Append(effects, operation)
    /\ UNCHANGED <<call, arg, ret>>

\* a check of the error alone
AuthFailedOnErrorOnly(outcome) == Truthy(outcome.error)

\* authError || !user
AuthFailed(outcome) == Truthy(outcome.error) \/ ~Truthy(outcome.user)

\* a check of the error alone
DownloadFailedOnErrorOnly(outcome) == Truthy(outcome.error)

\* downloadError || !fileData
DownloadFailed(outcome) == Truthy(outcome.error) \/ ~Truthy(outcome.data)

\* the locals computed from textContent before the profiles query
Prepared(l, textContent) ==
    [l EXCEPT !.textContent = textContent,
              !.textIsReadable = isTextReadable(textContent),
              !.usedInputType = usedInputType(textContent),
              !.debugPayload = debugPayload(l.debug, textContent, l.fileExtension)]

\* from the entry of the handler to await supabaseClient.auth.getUser()
Start ==
    /\ call = "serve"
    /\ pc = "ready"
    /\ IF arg.method = "OPTIONS" THEN Respond(CorsResponse, locals)
       ELSE IF ~Truthy(arg.authorization)
       THEN Catch(<<"N","o"," ","a","u","t","h","o","r","i","z","a","t","i","o","n"," ","h","e","a","d","e","r">>, locals)
       ELSE Await("getUser", [locals EXCEPT !.authHeader = arg.authorization],
                  "auth.getUser")

\* getUser settles; on to await req.json()
GetUserSettles ==
    /\ call = "serve"
    /\ pc = "getUser"
    /\ \E outcome \in GetUserOutcomes :
          LET l == [locals EXCEPT !.user = outcome.user, !.authError = outcome.error]
          IN IF AuthFailed(outcome) THEN Catch(<<"U","n","a","u","t","h","o","r","i","z","e","d">>, l)
             ELSE Await("body", l, "req.json")

\* req.json() settles; on to await storage.from('cvs').download(cvFilePath)
BodySettles ==
    /\ call = "serve"
    /\ pc = "body"
    /\ IF ~arg.body.parses THEN Catch(E_SyntaxError, locals)
       ELSE IF ~HasProps(arg.body.value) THEN Catch(E_TypeError, locals)
       ELSE LET l == [locals EXCEPT !.cvFilePath = Get(arg.body.value, "cvFilePath"),
                                    !.debug = Get(arg.body.value, "debug")]
            IN IF ~Truthy(l.cvFilePath) THEN Catch(<<"C","V"," ","f","i","l","e"," ","p","a","t","h"," ","i","s"," ","r","e","q","u","i","r","e","d">>, l)
               ELSE Await("download", l, "storage.download")

\* the download settles; on to await fileData.arrayBuffer(), a call that
\* throws a TypeError on a fileData without properties
DownloadSettles ==
    /\ call = "serve"
    /\ pc = "download"
    /\ \E outcome \in DownloadOutcomes :
          LET l == [locals EXCEPT !.fileData = outcome.data,
                                  !.downloadError = outcome.error]
          IN IF DownloadFailed(outcome)
             THEN Catch(<<"F","a","i","l","e","d"," ","t","o"," ","d","o","w","n","l","o","a","d"," ","C","V"," ","f","i","l","e",":"," ">>
                        \o ToStr(Get(outcome.error, "message")), l)
             ELSE IF ~HasProps(outcome.data) THEN Catch(E_TypeError, l)
             ELSE Await("arrayBuffer", l, "fileData.arrayBuffer")

\* the bytes arrive; the text of a PDF or DOC is extracted and the handler
\* goes on to the profiles query, a DOCX is handed to extractTextFromDOCX
ArrayBufferSettles ==
    /\ call = "serve"
    /\ pc = "arrayBuffer"
    /\ IF locals.cvFilePath.t # "string" THEN Catch(E_TypeError, locals)
       ELSE LET fileExtension == FileExtension(locals.cvFilePath.v)
                l == [locals EXCEPT !.fileExtension = fileExtension]
                rawText == locals.fileData.v.text
            IN IF fileExtension = <<"d","o","c","x">>
               THEN Await("docx", l, "extractTextFromDOCX")
               ELSE Await("profiles",
                          Prepared(l, IF fileExtension = <<"p","d","f">>
                                      THEN extractTextFromPDF(rawText)
                                      ELSE IF fileExtension = <<"d","o","c">>
                                      THEN ExtractTextFromDOC(rawText)
                                      ELSE <<>>),
                          "profiles.select")

\* extractTextFromDOCX settles; on to the profiles query
DocxSettles ==
    /\ call = "serve"
    /\ pc = "docx"
    /\ Await("profiles",
             Prepared(locals, extractTextFromDOCX(locals.fileData.v.archive)),
             "profiles.select")

\* the profiles query settles; the provider is chosen and the first request
\* is sent
ProfilesSettle ==
    /\ call = "serve"
    /\ pc = "profiles"
    /\ \E profileData \in ProfileRows, envKey \in EnvKeys :
          LET provider == Provider(profileData, envKey)
              l == [locals EXCEPT !.kimiKey = KimiKey(profileData),
                                  !.openaiKey = OpenAIKey(profileData, envKey),
                                  !.apiUrl = provider.apiUrl,
                                  !.model = provider.model]
          IN IF ~Truthy(provider.apiKey)
             THEN Catch(<<"N","o"," ","A","I"," ","A","P","I"," ","k","e","y"," ","c","o","n","f","i","g","u","r","e","d","."," ","P","l","e","a","s","e"," ","a","d","d"," ","y","o","u","r"," ","A","P","I"," ","k","e","y"," ","i","n"," ","t","h","e"," ","p","r","o","f","i","l","e"," ","s","e","t","t","i","n","g","s",".">>, l)
             ELSE Await("extractionResponse", l, "fetch")

\* the first request settles
ExtractionResponseSettles ==
    /\ call = "serve"
    /\ pc = "extractionResponse"
    /\ \E outcome \in FetchOutcomes :
          IF outcome = "rejects" THEN Catch(E_NetworkError, locals)
          ELSE IF outcome = "ok" THEN Await("extractionData", locals, "response.json")
          ELSE Await("errorText", locals, "response.text")

\* the body of the failed first request has been read
ErrorTextSettles ==
    /\ call = "serve"
    /\ pc = "errorText"
    /\ Catch(<<"F","a","i","l","e","d"," ","t","o"," ","p","a","r","s","e"," ","C","V"," ","w","i","t","h"," ","A","I">>, locals)

\* the body of the first reply has been read: parsedData, then the response
\* or the focused request
ExtractionDataSettles ==
    /\ call = "serve"
    /\ pc = "extractionData"
    /\ \E reply \in ResponseBodies :
          IF ~reply.parses THEN Catch(E_SyntaxError, locals)
          ELSE IF ParsedData(reply.value).threw
          THEN Catch(ParsedData(reply.value).message,
                     [locals EXCEPT !.extractionData = reply.value])
          ELSE LET l == [locals EXCEPT !.extractionData = reply.value,
                                       !.parsedData = ParsedData(reply.value).value]
               IN IF NeedsFocusedPass(l.parsedData)
                  THEN Await("focusedRes", l, "fetch")
                  ELSE Respond(SuccessResponse(l.parsedData, l.debugPayload), l)

\* the focused request settles
FocusedResSettles ==
    /\ call = "serve"
    /\ pc = "focusedRes"
    /\ \E outcome \in FetchOutcomes :
          IF outcome = "rejects" THEN Catch(E_NetworkError, locals)
          ELSE IF outcome = "ok" THEN Await("focusedJson", locals, "response.json")
          ELSE Await("focusedErrorText", locals, "response.text")

\* the body of the focused reply has been read
FocusedJsonSettles ==
    /\ call = "serve"
    /\ pc = "focusedJson"
    /\ \E reply \in ResponseBodies :
          IF ~reply.parses THEN Catch(E_SyntaxError, locals)
          ELSE IF ~HasProps(reply.value)
          THEN Catch(E_TypeError, [locals EXCEPT !.focusedJson = reply.value])
          ELSE LET l == [locals EXCEPT
                            !.focusedJson = reply.value,
                            !.parsedData = MergeFocused(locals.parsedData, reply.value)]
               IN Respond(SuccessResponse(l.parsedData, l.debugPayload), l)

\* the body of the failed focused request has been read
FocusedErrorTextSettles ==
    /\ call = "serve"
    /\ pc = "focusedErrorText"
    /\ Respond(SuccessResponse(locals.parsedData, locals.debugPayload), locals)

InitServe ==
    /\ call = "serve"
    /\ pc = "ready"
    /\ ret = Pending
    /\ locals = NoLocals
    /\ effects = <<>>
    /\ arg \in Requests

NextServe ==
    \/ Start
    \/ GetUserSettles
    \/ BodySettles
    \/ DownloadSettles
    \/ ArrayBufferSettles
    \/ DocxSettles
    \/ ProfilesSettle
    \/ ExtractionResponseSettles
    \/ ErrorTextSettles
    \/ ExtractionDataSettles
    \/ FocusedResSettles
    \/ FocusedJsonSettles
    \/ FocusedErrorTextSettles

SpecServe == InitServe /\ [][NextServe]_vars

\* ------------------------------------------------------------------------
\* Claims about the serve handler (specification SpecServe).
\* ------------------------------------------------------------------------
\* the response is the failure envelope with a status outside 200..299
IsFailureEnvelope(response) ==
    /\ response.status \notin 200..299
    /\ DOMAIN response.body = {"success", "error"}
    /\ response.body.success = FALSE

\* the download of this invocation has settled with an error or without data
DownloadHasFailed ==
    /\ "storage.download" \in {effects[i] : i \in 1..Len(effects)}
    /\ pc # "download"
    /\ Truthy(locals.downloadError) \/ ~Truthy(locals.fileData)

\* C9: when the caller is authorized and cvFilePath is given but the storage
\* download returns an error or no data, the handler has returned, its
\* response is the failure envelope with a non-2xx status, and the error
\* message contains "Failed to download".
C9_DownloadFailure ==
    (call = "serve" /\ DownloadHasFailed) =>
        /\ pc = "done"
        /\ ~ret.threw
        /\ IsFailureEnvelope(ret.value)
        /\ Contains(ret.value.body.error, <<"F","a","i","l","e","d"," ","t","o"," ","d","o","w","n","l","o","a","d">>)

\* C9 witness: the download returned no data and no error, and the response
\* carries "Failed to download CV file: undefined".
C9_Witness ==
    /\ call = "serve"
    /\ pc = "done"
    /\ DownloadHasFailed
    /\ locals.downloadError = Null
    /\ Truthy(locals.user)
    /\ Truthy(locals.cvFilePath)
    /\ ret.value = ErrorResponse(<<"F","a","i","l","e","d"," ","t","o"," ","d","o","w","n","l","o","a","d"," ","C","V"," ","f","i","l","e",":"," ","u","n","d","e","f","i","n","e","d">>)

\* the operations that process the request
Processing ==
    {"req.json", "storage.download", "fileData.arrayBuffer", "extractTextFromDOCX",
     "profiles.select", "fetch", "response.json", "response.text"}

\* the request is not OPTIONS and has no Authorization header, or its
\* identity lookup has settled with an error or without a user
AuthorizationHasFailed ==
    /\ arg.method # "OPTIONS"
    /\ \/ ~Truthy(arg.authorization)
       \/ /\ "auth.getUser" \in {effects[i] : i \in 1..Len(effects)}
          /\ pc # "getUser"
          /\ Truthy(locals.authError) \/ ~Truthy(locals.user)

\* C10: a non-OPTIONS request without Authorization header, or whose identity
\* lookup returns an error or no user, is rejected with the failure envelope
\* before any processing: at no point of the invocation has the body been
\* read, a download been started, the profile settings been read or an AI
\* request been sent.
C10_RejectedBeforeProcessing ==
    (call = "serve" /\ AuthorizationHasFailed) =>
        /\ \A i \in 1..Len(effects) : effects[i] \notin Processing
        /\ pc \in {"ready", "done"}
        /\ pc = "done" => ~ret.threw /\ IsFailureEnvelope(ret.value)
        /\ locals.cvFilePath = Undef
        /\ locals.fileData = Undef

\* C10 witness: the identity lookup returned neither a user nor an error and
\* the handler answered 'Unauthorized' after that single operation.
C10_Witness ==
    /\ call = "serve"
    /\ pc = "done"
    /\ AuthorizationHasFailed
    /\ effects = <<"auth.getUser">>
    /\ locals.user = Null
    /\ locals.authError = Null
    /\ ret.value = ErrorResponse(<<"U","n","a","u","t","h","o","r","i","z","e","d">>)

\* the text of the file has been extracted and classified
TextPrepared ==
    "profiles.select" \in {effects[i] : i \in 1..Len(effects)}

\* provider selection has settled on a provider
ProviderSelected ==
    /\ TextPrepared
    /\ pc # "profiles"
    /\ locals.apiUrl # ""

\* C11: an extracted text shorter than 100 characters is classified
\* unreadable whatever it contains; for a text classified unreadable (the
\* empty text included) the input strategy is base64_snippet and the handler
\* has gone on to the profile query, and to the AI request once a provider
\* is selected, instead of answering with a failure; focused_text and
\* extracted_text are chosen only for a text classified readable.
C11_InputStrategy ==
    (call = "serve" /\ TextPrepared) =>
        /\ Len(locals.textContent) < ReadableMinLength => ~locals.textIsReadable
        /\ locals.textContent = <<>> => ~locals.textIsReadable
        /\ ~locals.textIsReadable =>
              /\ locals.usedInputType = "base64_snippet"
              /\ ProviderSelected => "fetch" \in {effects[i] : i \in 1..Len(effects)}
        /\ locals.usedInputType \in {"focused_text", "extracted_text", "base64_snippet"}
        /\ locals.usedInputType \in {"focused_text", "extracted_text"} =>
              locals.textIsReadable

\* C11 witness: a text of letters and common words, shorter than 100
\* characters, was classified unreadable, the strategy is base64_snippet and
\* the first AI request has been sent.
C11_Witness ==
    /\ call = "serve"
    /\ TextPrepared
    /\ locals.textContent = ShortText
    /\ HasCommonWords(locals.textContent)
    /\ ~locals.textIsReadable
    /\ locals.usedInputType = "base64_snippet"
    /\ pc = "extractionResponse"
    /\ effects[Len(effects)] = "fetch"

\* the number of AI provider requests sent so far
FetchCount(ops) == Cardinality({i \in 1..Len(ops) : ops[i] = "fetch"})

\* work_experience of data is missing, not an array, or empty
LacksWorkExperience(data) ==
    \/ data.t # "object"
    \/ "work_experience" \notin DOMAIN data.v
    \/ data.v.work_experience.t # "array"
    \/ data.v.work_experience.v = <<>>

\* the fields of data other than work_experience
OtherFields(data) ==
    IF data.t # "object" THEN data
    ELSE Obj([f \in DOMAIN data.v \ {"work_experience"} |-> data.v[f]])

\* the work_experience list of the focused reply, after code-fence unwrapping
SecondPassList(focusedJson) ==
    LET parsed == JSONParse(Cleaned(ToStr(MessageContent(focusedJson))))
    IN IF parsed.threw THEN Undef ELSE Get(parsed.value, "work_experience")

\* the response is the success envelope
IsSuccess(completion) ==
    /\ ~completion.threw
    /\ completion.value.body # Null
    /\ completion.value.body.success = TRUE

\* one step of the handler under the retry policy
C12_Step ==
    /\ FetchCount(effects') <= 2
    \* a request is sent only when none is pending, and the second one only
    \* after the body of the first reply has been read
    /\ FetchCount(effects') > FetchCount(effects) =>
          /\ pc \notin {"extractionResponse", "focusedRes"}
          /\ FetchCount(effects) = 1 =>
                /\ pc = "extractionData"
                /\ effects[Len(effects)] = "response.json"
    \* the first reply has been read: the second request is sent exactly when
    \* the reply parsed and its work_experience is missing, no array or empty
    /\ pc = "extractionData" =>
          /\ FetchCount(effects) = 1
          /\ (FetchCount(effects') = 2) <=>
                (locals'.parsedData # Undef /\ LacksWorkExperience(locals'.parsedData))
          /\ locals'.parsedData = Undef => pc' = "done" /\ ~IsSuccess(ret')
          /\ (pc' = "done" /\ IsSuccess(ret')) =>
                ret'.value.body.data = locals'.parsedData
    \* a first request that fails is not followed by a second one
    /\ pc \in {"extractionResponse", "errorText"} => FetchCount(effects') = 1
    \* the focused reply has been read: only work_experience may change, and
    \* only to the non-empty list of the second pass
    /\ (pc = "focusedJson" /\ pc' = "done" /\ IsSuccess(ret')) =>
          LET first == locals.parsedData
              data == ret'.value.body.data
              list == SecondPassList(locals'.focusedJson)
          IN /\ data.t = first.t
             /\ OtherFields(data) = OtherFields(first)
             /\ data # first =>
                   /\ IsArray(list)
                   /\ list.v # <<>>
                   /\ data.v.work_experience = list
    \* the focused request failed: the data is the first pass's
    /\ (pc \in {"focusedRes", "focusedErrorText"} /\ pc' = "done" /\ IsSuccess(ret')) =>
          ret'.value.body.data = locals.parsedData

\* C12: an invocation sends at most two AI provider requests, one after the
\* other; the second is sent exactly when the first succeeded, its reply
\* parsed as JSON and the parsed work_experience is missing, not an array or
\* empty; the returned work_experience is replaced by the second pass's list
\* only when that list is a non-empty array, and every other field of the
\* returned data is the first pass's value.
C12_RetryPolicy == [][C12_Step]_vars

\* C12 witness: the first pass returned an empty work_experience list, a
\* second request was sent, and the response carries the first pass's
\* first_name with the second pass's list.
C12_Witness ==
    /\ call = "serve"
    /\ pc = "done"
    /\ FetchCount(effects) = 2
    /\ IsSuccess(ret)
    /\ locals.focusedJson = Reply(Str(Fenced(T_Fence, J_Focused)))
    /\ ret.value.body.data =
          Obj([first_name |-> V_Ann, work_experience |-> Arr(<<V_JobInitech>>)])

\* the position in ops of the n-th AI provider request
FetchAt(ops, n) ==
    CHOOSE i \in 1..Len(ops) :
        ops[i] = "fetch" /\ FetchCount(SubSeq(ops, 1, i)) = n

\* the n-th AI provider request returned a non-2xx status: the handler went
\* on to read the body as text
RequestNotOk(n) ==
    /\ FetchCount(effects) >= n
    /\ FetchAt(effects, n) < Len(effects)
    /\ effects[FetchAt(effects, n) + 1] = "response.text"

\* the body of the first reply has been read and its message content is not
\* valid JSON after code-fence unwrapping
FirstContentInvalid ==
    /\ locals.extractionData # Undef
    /\ LET content == MessageContent(locals.extractionData)
       IN content.t # "string" \/ JSONParse(CleanedText(content.v)).threw

\* the same for the reply of the focused request, an object
FocusedContentInvalid ==
    /\ HasProps(locals.focusedJson)
    /\ JSONParse(Cleaned(ToStr(MessageContent(locals.focusedJson)))).threw

\* the value the first reply parsed to
FirstPassData ==
    JSONParse(CleanedText(MessageContent(locals.extractionData).v)).value

\* C13 as claimed: whenever an AI provider request of the invocation, first
\* pass or focused second pass, returned a non-2xx status or a reply content
\* that is not valid JSON after code-fence unwrapping, the response is the
\* failure envelope with a non-2xx status; a success response is returned
\* only when every AI request of the invocation succeeded and parsed.
C13_AIFailuresAsClaimed ==
    (/\ call = "serve"
     /\ pc = "done"
     /\ \/ RequestNotOk(1) \/ FirstContentInvalid
        \/ RequestNotOk(2) \/ FocusedContentInvalid) =>
        /\ ~ret.threw
        /\ IsFailureEnvelope(ret.value)

\* C13 amended: a first AI request that returned a non-2xx status, or whose
\* reply content is not valid JSON after code-fence unwrapping, ends the
\* invocation with the failure envelope and a generic failure string; a
\* success response is returned only when the first request succeeded and
\* parsed; a focused second request that returned a non-2xx status, or whose
\* reply is an object with a content that is not valid JSON, is only logged:
\* the response is the success envelope with the first pass's data.
C13_FirstPassFailures ==
    (call = "serve" /\ pc = "done") =>
        /\ RequestNotOk(1) =>
              /\ ~ret.threw
              /\ IsFailureEnvelope(ret.value)
              /\ ret.value.body.error = <<"F","a","i","l","e","d"," ","t","o"," ","p","a","r","s","e"," ","C","V"," ","w","i","t","h"," ","A","I">>
        /\ FirstContentInvalid =>
              /\ ~ret.threw
              /\ IsFailureEnvelope(ret.value)
              /\ MessageContent(locals.extractionData).t = "string" /\ HasProps(locals.extractionData) =>
                    ret.value.body.error = <<"F","a","i","l","e","d"," ","t","o"," ","p","a","r","s","e"," ","e","x","t","r","a","c","t","e","d"," ","C","V"," ","d","a","t","a">>
        /\ (IsSuccess(ret) /\ FetchCount(effects) >= 1) =>
              /\ ~RequestNotOk(1)
              /\ locals.extractionData # Undef
              /\ ~FirstContentInvalid
        /\ (RequestNotOk(2) \/ FocusedContentInvalid) =>
              /\ IsSuccess(ret)
              /\ ret.value.body.data = FirstPassData

\* C13 witness: the first reply carried a text that is not JSON and the
\* handler answered with the generic failure string.
C13_Witness ==
    /\ call = "serve"
    /\ pc = "done"
    /\ FetchCount(effects) = 1
    /\ locals.extractionData = Reply(Str(J_Invalid))
    /\ FirstContentInvalid
    /\ ret.value = ErrorResponse(<<"F","a","i","l","e","d"," ","t","o"," ","p","a","r","s","e"," ","e","x","t","r","a","c","t","e","d"," ","C","V"," ","d","a","t","a">>)

\* the invocation has ended with the configuration error
EndedWithConfigurationError ==
    /\ pc = "done"
    /\ ~ret.threw
    /\ ret.value = ErrorResponse(<<"N","o"," ","A","I"," ","A","P","I"," ","k","e","y"," ","c","o","n","f","i","g","u","r","e","d","."," ","P","l","e","a","s","e"," ","a","d","d"," ","y","o","u","r"," ","A","P","I"," ","k","e","y"," ","i","n"," ","t","h","e"," ","p","r","o","f","i","l","e"," ","s","e","t","t","i","n","g","s",".">>)

\* neither a stored Kimi key, nor a stored OpenAI key, nor OPENAI_API_KEY
NoKeyAvailable ==
    /\ ~Truthy(locals.kimiKey)
    /\ ~Truthy(locals.openaiKey)

\* C14 as claimed: once the profile settings have been read, the invocation
\* ends with the configuration error if and only if no API key is available
\* for either provider; with a key for at least one provider some provider
\* is selected; and no AI request is sent in an invocation that ends with the
\* configuration error.
C14_ProviderSelectionAsClaimed ==
    /\ (call = "serve" /\ TextPrepared /\ pc # "profiles") =>
          /\ EndedWithConfigurationError <=> NoKeyAvailable
          /\ ~NoKeyAvailable => ProviderSelected
    /\ (call = "serve" /\ EndedWithConfigurationError) => FetchCount(effects) = 0

====
